---- MODULE Spec2Model ----
(***************************************************************************)
(* MergeGuard (PAIS): the checkpoint gate of the browser extension.        *)
(*                                                                         *)
(* The model follows the JavaScript of the repository: EventInterceptor    *)
(* (trigger handlers, handleCheckpoint), SafeReplay (tokens per element,   *)
(* pending marker, replay), CooldownManager (allow tokens in storage),     *)
(* Tier3Modal (the confirmation surface), Logger.log and                   *)
(* StateManager.recordCheckpoint.  Handlers are async functions: each      *)
(* action below is one synchronous turn of a handler, i.e. the code        *)
(* between two awaits of a storage call or of the user's answer.           *)
(***************************************************************************)
EXTENDS Integers, Sequences, FiniteSets, TLC

(***************************************************************************)
(* Bounds of the model.                                                    *)
(***************************************************************************)
MaxUserEvents == 2    \* events the user causes in one behaviour: clicks, submits,
                      \* key presses on the page, navigations
MaxHandlers == 4      \* events (user-initiated and replayed) in one behaviour
MaxNow == 5101        \* the clock stops advancing past this value
ModalUserEvents == 1  \* events the user causes on the page when the surface
                      \* itself is examined (SpecModal)
MaxCalls == 2         \* calls of a function on the same arguments
MaxRecords == 12      \* recordCheckpoint calls of one session
MaxNavs == 2          \* calls of handleNavigation on one page load
MaxNavEvents == 3     \* the same, where navigation is examined on its own
MaxSessionNow == 6000
MaxPremergeCalls == 2  \* calls of shouldShowPremergeNudge
MaxLogs == 4          \* calls of Logger.log
LogBufferSize == 2    \* bufferSize given to the Logger examined on its own
MaxFields == 2        \* fields of a payload given to Logger.redact
MaxFaults == 1        \* storage calls that reject in one behaviour

(***************************************************************************)
(* Program constants.                                                      *)
(***************************************************************************)
TOKEN_TTL_MS == 5000      \* cooldowns.token_ttl_ms of the fallback policy
CLEANUP_DELAY_MS == 100   \* setTimeout delay in CooldownManager.consumeToken
PROACTIVE_NUDGE_MS == 600000  \* cooldowns.proactive_nudge_ms, the default
NUDGE_DELAY_MS == 2000    \* setTimeout delay in PAISController.showProactiveNudge
SAVE_INTERVAL_MS == 5000  \* setInterval period in MetricsTracker.start
PREMERGE_RESET_MS == 300000   \* cooldowns.premerge_reset_after_review_ms, the default
BUFFER_SIZE == 1000       \* Logger ring buffer size
STRING_CAP == 500         \* Logger.redact truncates longer strings
HISTORY_MAX == 10         \* StateManager.recordCheckpoint keeps 10 entries

\* ReadinessCalculator: scores, weights and thresholds are counted in
\* thousandths (0.35 is 350), times in milliseconds, scroll in percent
SCORE_ONE == 1000                 \* the score 1
DEFAULT_FILES_CHANGED == 350
DEFAULT_CHECKS_VIEWED == 250
DEFAULT_DIFF_TIME_TARGET_MS == 60000
DEFAULT_DIFF_TIME_MAX == 200
SCROLL_MIN_PCT == 50
DEFAULT_SCROLL_DEPTH == 100
DEFAULT_CONVERSATION_VIEWED == 100
DEFAULT_MIN_TIME_BEFORE_MERGE_MS == 30000
DEFAULT_EARLY_MERGE_PENALTY == 250
DEFAULT_TIER1_MIN == 700
DEFAULT_TIER2_MIN == 450

None == "none"

\* the outcome of a call that throws
Thrown == "throws"

(***************************************************************************)
(* The page: the controls a trigger can hit.  Each control carries the     *)
(* attributes the code reads.                                              *)
(*   closest : the element findActionableElement returns for this target   *)
(*   form    : the form a submit button submits (None otherwise)           *)
(*   merge   : for a form, action contains 'merge' or input[name=merge]    *)
(***************************************************************************)
Dom ==
  [ btnConfirm |-> [tag |-> "BUTTON", type |-> "submit", id |-> "", testid |-> "",
                    action |-> "", text |-> "Confirm merge", name |-> "",
                    label |-> "Confirm merge", inScope |-> TRUE,
                    closest |-> "btnConfirm", form |-> "formMerge", merge |-> FALSE],
    formMerge  |-> [tag |-> "FORM", type |-> "", id |-> "", testid |-> "",
                    action |-> "", text |-> "Confirm merge", name |-> "",
                    label |-> "Confirm merge", inScope |-> TRUE,
                    closest |-> None, form |-> None, merge |-> TRUE],
    btnAuto    |-> [tag |-> "BUTTON", type |-> "button", id |-> "",
                    testid |-> "auto-merge-button",
                    action |-> "", text |-> "Enable auto-merge", name |-> "",
                    label |-> "ENABLE AUTO-MERGE", inScope |-> TRUE,
                    closest |-> "btnAuto", form |-> None, merge |-> FALSE],
    btnComment |-> [tag |-> "BUTTON", type |-> "button", id |-> "new-comment",
                    testid |-> "", action |-> "", text |-> "Comment", name |-> "",
                    label |-> "Comment", inScope |-> TRUE,
                    closest |-> "btnComment", form |-> None, merge |-> FALSE],
    divText    |-> [tag |-> "DIV", type |-> "", id |-> "", testid |-> "",
                    action |-> "", text |-> "Merging is blocked", name |-> "",
                    label |-> "Merging is blocked", inScope |-> TRUE,
                    closest |-> None, form |-> None, merge |-> FALSE],
    btnQueue   |-> [tag |-> "BUTTON", type |-> "button", id |-> "", testid |-> "",
                    action |-> "", text |-> "Merge when ready", name |-> "",
                    label |-> "Merge when ready", inScope |-> TRUE,
                    closest |-> "btnQueue", form |-> None, merge |-> FALSE],
    btnIcon    |-> [tag |-> "BUTTON", type |-> "button", id |-> "", testid |-> "",
                    action |-> "", text |-> "", name |-> "",
                    label |-> "", inScope |-> TRUE,
                    closest |-> "btnIcon", form |-> None, merge |-> FALSE],
    btnOutside |-> [tag |-> "BUTTON", type |-> "button", id |-> "", testid |-> "",
                    action |-> "", text |-> "Confirm merge", name |-> "",
                    label |-> "Confirm merge", inScope |-> FALSE,
                    closest |-> "btnOutside", form |-> None, merge |-> FALSE],
    formOutside |-> [tag |-> "FORM", type |-> "", id |-> "", testid |-> "",
                    action |-> "", text |-> "Merge pull request", name |-> "",
                    label |-> "Merge pull request", inScope |-> FALSE,
                    closest |-> None, form |-> None, merge |-> TRUE] ]

Elements == DOMAIN Dom

(***************************************************************************)
(* SafeReplay.getElementId: the id, else the data-testid, else the         *)
(* data-action, else tag-type-text-name.                                   *)
(***************************************************************************)
getElementId(el) ==
  LET e == Dom[el] IN
  IF e.id # "" THEN <<"id", e.id>>
  ELSE IF e.testid # "" THEN <<"testid", e.testid>>
  ELSE IF e.action # "" THEN <<"action", e.action>>
  ELSE <<e.tag, e.type, e.text, e.name>>

ElementIds == { getElementId(el) : el \in Elements }

(***************************************************************************)
(* The policy.  kinds is in declaration order (Object.entries order).      *)
(* A template holds the checklist length and the confirmation text.        *)
(***************************************************************************)
FallbackPolicy ==
  [ scope_selector |-> TRUE,
    kinds |-> << [kind |-> "MERGE_NOW",
                  patterns |-> <<"Confirm merge", "Merge pull request">>],
                 [kind |-> "AUTO_MERGE_ENABLE",
                  patterns |-> <<"Enable auto-merge">>],
                 [kind |-> "MERGE_QUEUE_ADD",
                  patterns |-> <<"Add to merge queue", "Merge when ready">>] >>,
    token_ttl_ms |-> TOKEN_TTL_MS,
    tier3 |-> [ MERGE_NOW |-> [checklist |-> 3, confirmation_text |-> "MERGE"],
                AUTO_MERGE_ENABLE |-> [checklist |-> 3, confirmation_text |-> "MERGE"],
                MERGE_QUEUE_ADD |-> [checklist |-> 3, confirmation_text |-> "MERGE"] ] ]

\* a custom policy (options page): one checklist item per kind
ShortPolicy ==
  [ FallbackPolicy EXCEPT
      !.tier3 = [ MERGE_NOW |-> [checklist |-> 1, confirmation_text |-> "MERGE"],
                  AUTO_MERGE_ENABLE |-> [checklist |-> 1, confirmation_text |-> "MERGE"],
                  MERGE_QUEUE_ADD |-> [checklist |-> 1, confirmation_text |-> "MERGE"] ] ]

(***************************************************************************)
(* Strings.  The code works on the characters of labels, patterns and      *)
(* typed text; Chars gives the characters of each string in play.          *)
(***************************************************************************)
Chars(text) ==
  CASE text = "MERGE" ->
         <<"M", "E", "R", "G", "E">>
    [] text = "Confirm merge" ->
         <<"C", "o", "n", "f", "i", "r", "m", " ", "m", "e", "r", "g", "e">>
    [] text = "Merge pull request" ->
         <<"M", "e", "r", "g", "e", " ", "p", "u", "l", "l", " ", "r", "e", "q", "u", "e", "s", "t">>
    [] text = "Enable auto-merge" ->
         <<"E", "n", "a", "b", "l", "e", " ", "a", "u", "t", "o", "-", "m", "e", "r", "g", "e">>
    [] text = "ENABLE AUTO-MERGE" ->
         <<"E", "N", "A", "B", "L", "E", " ", "A", "U", "T", "O", "-", "M", "E", "R", "G", "E">>
    [] text = "Add to merge queue" ->
         <<"A", "d", "d", " ", "t", "o", " ", "m", "e", "r", "g", "e", " ", "q", "u", "e", "u", "e">>
    [] text = "Merge when ready" ->
         <<"M", "e", "r", "g", "e", " ", "w", "h", "e", "n", " ", "r", "e", "a", "d", "y">>
    [] text = "Comment" ->
         <<"C", "o", "m", "m", "e", "n", "t">>
    [] text = "Merging is blocked" ->
         <<"M", "e", "r", "g", "i", "n", "g", " ", "i", "s", " ", "b", "l", "o", "c", "k", "e", "d">>
    [] text = "Confirm squash and merge" ->
         <<"C", "o", "n", "f", "i", "r", "m", " ", "s", "q", "u", "a", "s", "h", " ", "a", "n", "d", " ", "m", "e", "r", "g", "e">>
    [] text = "merge" ->
         <<"m", "e", "r", "g", "e">>
    [] text = "confirm.merge" ->
         <<"c", "o", "n", "f", "i", "r", "m", ".", "m", "e", "r", "g", "e">>
    [] text = "(merge" ->
         <<"(", "m", "e", "r", "g", "e">>
    [] text = "auto" ->
         <<"a", "u", "t", "o">>
    [] text = "Squash" ->
         <<"S", "q", "u", "a", "s", "h">>
    [] OTHER -> <<>>

UpperLetters == <<"A", "B", "C", "D", "E", "F", "G", "H", "I", "J", "K", "L", "M", "N", "O", "P", "Q", "R", "S", "T", "U", "V", "W", "X", "Y", "Z">>
LowerLetters == <<"a", "b", "c", "d", "e", "f", "g", "h", "i", "j", "k", "l", "m", "n", "o", "p", "q", "r", "s", "t", "u", "v", "w", "x", "y", "z">>

\* the canonical form of a character under the 'i' flag of a RegExp
FoldChar(c) ==
  IF \E i \in 1..Len(UpperLetters) : UpperLetters[i] = c
  THEN LowerLetters[CHOOSE i \in 1..Len(UpperLetters) : UpperLetters[i] = c]
  ELSE c

FoldCase(s) == [i \in 1..Len(s) |-> FoldChar(s[i])]

\* the strings in play and their canonical characters
Strings == { "", "MERGE", "Confirm merge", "Merge pull request", "Enable auto-merge",
             "ENABLE AUTO-MERGE", "Add to merge queue", "Merge when ready",
             "Comment", "Merging is blocked", "Confirm squash and merge",
             "merge", "confirm.merge", "(merge", "auto", "Squash" }

FoldedChars == [s \in Strings |-> FoldCase(Chars(s))]

(***************************************************************************)
(* new RegExp(pattern, 'i').test(text), for patterns made of literal       *)
(* characters, "." (any one character) and "(": a group that is never      *)
(* closed, for which the constructor throws a SyntaxError.  test() finds   *)
(* the pattern anywhere in the text.                                       *)
(***************************************************************************)
Throws == [pattern \in Strings |->
             \E i \in 1..Len(Chars(pattern)) : Chars(pattern)[i] = "("]

RegExpThrows(pattern) == Throws[pattern]

\* the pattern p matches the text t from position k on
MatchesAt(p, t, k) ==
  /\ k + Len(p) - 1 <= Len(t)
  /\ \A i \in 1..Len(p) : p[i] = "." \/ p[i] = t[k + i - 1]

\* a variant without the 'i' flag
RegexTestCaseSensitive(pattern, text) ==
  \E k \in 1..(Len(Chars(text)) + 1) : MatchesAt(Chars(pattern), Chars(text), k)

\* test() for each pattern and text in play
Tests == [pattern \in Strings |-> [text \in Strings |->
            \E k \in 1..(Len(FoldedChars[text]) + 1) :
              MatchesAt(FoldedChars[pattern], FoldedChars[text], k)]]

RegexTest(pattern, text) == Tests[pattern][text]

\* the try block of classifyCheckpoint for one pattern: TRUE when the
\* pattern compiles and matches, FALSE when it does not match or when the
\* constructor throws and the catch block skips the pattern
patternMatches(pattern, text) ==
  IF RegExpThrows(pattern) THEN FALSE ELSE RegexTest(pattern, text)

\* a variant in which the last declared kind with a matching pattern wins
RECURSIVE classifyFromLast(_, _, _)
classifyFromLast(kinds, i, text) ==
  IF i > Len(kinds) THEN None
  ELSE LET rest == classifyFromLast(kinds, i + 1, text) IN
       IF rest # None THEN rest
       ELSE IF \E j \in 1..Len(kinds[i].patterns) :
                  patternMatches(kinds[i].patterns[j], text)
            THEN kinds[i].kind
            ELSE None

\* a variant without the catch block: a pattern that does not compile ends
\* the classification with no kind, unless an earlier pattern matched
RECURSIVE classifyFromFatal(_, _, _)
classifyFromFatal(kinds, i, text) ==
  IF i > Len(kinds) THEN None
  ELSE LET ps == kinds[i].patterns
           hit(j) == ~RegExpThrows(ps[j]) /\ RegexTest(ps[j], text)
           stop == { j \in 1..Len(ps) : RegExpThrows(ps[j]) \/ hit(j) }
           first == CHOOSE j \in stop : \A k \in stop : j <= k
       IN  IF stop = {} THEN classifyFromFatal(kinds, i + 1, text)
           ELSE IF hit(first) THEN kinds[i].kind
           ELSE None

\* PolicyLoader.classifyCheckpoint: first kind, in declaration order, that
\* has a matching pattern; None when nothing matches.  `for (const pattern of
\* config.patterns)` throws a TypeError on a kind that has no patterns.
RECURSIVE classifyFrom(_, _, _)
classifyFrom(kinds, i, text) ==
  IF i > Len(kinds) THEN None
  ELSE IF "patterns" \notin DOMAIN kinds[i] THEN Thrown
  ELSE IF \E j \in 1..Len(kinds[i].patterns) : patternMatches(kinds[i].patterns[j], text)
       THEN kinds[i].kind
       ELSE classifyFrom(kinds, i + 1, text)

classifyCheckpoint(pol, text) ==
  IF "kinds" \notin DOMAIN pol THEN None
  ELSE classifyFrom(pol.kinds, 1, text)

\* PolicyLoader.getTier3Template
\* (<<>> is null, <<t>> the template t)
getTier3Template(pol, kind) ==
  IF kind \in DOMAIN pol.tier3 THEN <<pol.tier3[kind]>> ELSE <<>>

\* EventInterceptor.findActionableElement
findActionableElement(target) == Dom[target].closest

\* EventInterceptor.getAccessibleName: the first non-empty label source
getAccessibleName(el) == Dom[el].label

\* a variant that takes every element to be inside the merge box
isInScopeAnywhere(pol, el) == TRUE

\* EventInterceptor.isInScope
isInScope(pol, el) == IF ~pol.scope_selector THEN TRUE ELSE Dom[el].inScope

\* EventInterceptor.classifyAction: the kind, or None
classifyAction(pol, el) ==
  IF ~isInScope(pol, el) THEN None
  ELSE IF getAccessibleName(el) = "" THEN None
  ELSE classifyCheckpoint(pol, getAccessibleName(el))

\* EventInterceptor.classifyForm: MERGE_NOW for a merge form in scope
classifyForm(pol, form) ==
  IF ~isInScope(pol, form) THEN None
  ELSE IF Dom[form].merge THEN "MERGE_NOW"
  ELSE None

(***************************************************************************)
(* Allow tokens (CooldownManager).                                         *)
(***************************************************************************)
\* A storage value is <<>> (no record under the key) or <<r>> (the record r).
\* the record createAllowToken stores
NewToken(pol, t) == <<[timestamp |-> t, ttl |-> pol.token_ttl_ms, used |-> FALSE]>>

\* the record consumeToken writes back for the record it read
consumed(tok) == <<[tok[1] EXCEPT !.used = TRUE]>>

\* a variant that lets a token expire when its age reaches the TTL
TokenValidStrict(tok, t) ==
  IF tok = <<>> THEN FALSE
  ELSE IF tok[1].used THEN FALSE
  ELSE IF t - tok[1].timestamp >= tok[1].ttl THEN FALSE
  ELSE TRUE

\* the value hasValidToken returns for the record read from storage at time t
TokenValid(tok, t) ==
  IF tok = <<>> THEN FALSE
  ELSE IF tok[1].used THEN FALSE
  ELSE IF t - tok[1].timestamp > tok[1].ttl THEN FALSE
  ELSE TRUE

(***************************************************************************)
(* Tier3Modal: the text typed into the confirmation input.  Texts are      *)
(* sequences of characters; Trim and ToUpperCase are String.trim and       *)
(* String.toUpperCase.                                                     *)
(***************************************************************************)
UpperChar(c) ==
  CASE c = "m" -> "M" [] c = "e" -> "E" [] c = "r" -> "R" [] c = "g" -> "G"
    [] OTHER -> c

ToUpperCase(s) == [i \in 1..Len(s) |-> UpperChar(s[i])]

RECURSIVE TrimLeft(_)
TrimLeft(s) == IF s # <<>> /\ Head(s) = " " THEN TrimLeft(Tail(s)) ELSE s

RECURSIVE TrimRight(_)
TrimRight(s) ==
  IF s # <<>> /\ s[Len(s)] = " " THEN TrimRight(SubSeq(s, 1, Len(s) - 1)) ELSE s

Trim(s) == TrimRight(TrimLeft(s))

\* what the user may type
Texts == { <<>>,
           <<" ", "m", "e", "r", "g", "e", " ">>,
           <<"M", "E", "R", "G">> }

\* a variant that is satisfied by one checked item
validateDisabledAnyChecked(checked, nItems, text, expected) ==
  LET anyChecked == \E i \in 1..nItems : i \in checked
      textValid == ToUpperCase(Trim(text)) = ToUpperCase(Chars(expected))
  IN  ~(anyChecked /\ textValid)

\* validate(): the value of confirmBtn.disabled
validateDisabled(checked, nItems, text, expected) ==
  LET allChecked == \A i \in 1..nItems : i \in checked
      textValid == ToUpperCase(Trim(text)) = ToUpperCase(Chars(expected))
  IN  ~(allChecked /\ textValid)

(***************************************************************************)
(* ReadinessCalculator.  A configured number is <<>> (the field is absent) *)
(* or <<v>>.  The inputs of the model make every quotient exact.           *)
(***************************************************************************)
\* x || d: d replaces an absent x and the number 0
Or(x, d) == IF x = <<>> THEN d ELSE IF x[1] = 0 THEN d ELSE x[1]

\* x ?? d: d replaces an absent x only
Nullish(x, d) == IF x = <<>> THEN d ELSE x[1]

MinOf(a, b) == IF a <= b THEN a ELSE b
MaxOf(a, b) == IF a >= b THEN a ELSE b

\* nudge_thresholds of the built-in fallback policy
FallbackNudge ==
  [ signals |-> [ files_changed |-> <<350>>, checks_viewed |-> <<250>>,
                  diff_time_target_ms |-> <<60000>>, diff_time_max |-> <<200>>,
                  scroll_depth |-> <<100>>, conversation_viewed |-> <<100>>,
                  min_time_before_merge_ms |-> <<30000>>,
                  early_merge_penalty |-> <<250>> ],
    tier1_min |-> <<700>>,
    tier2_min |-> <<450>> ]

\* Math.min(diffTime / diffTimeTarget, 1) * diffTimeMax
diffTimeScore(diffTime, diffTimeTarget, diffTimeMax) ==
  IF diffTime >= diffTimeTarget THEN diffTimeMax
  ELSE (diffTime * diffTimeMax) \div diffTimeTarget

\* the score accumulated from the signals, before it is clamped
rawScore(state, nudge, at) ==
  LET signals == nudge.signals
      files == IF "files" \in state.tabsViewed
               THEN Or(signals.files_changed, DEFAULT_FILES_CHANGED) ELSE 0
      checks == IF state.checksViewed
                THEN Or(signals.checks_viewed, DEFAULT_CHECKS_VIEWED) ELSE 0
      diff == diffTimeScore(state.diff_time_ms,
                            Or(signals.diff_time_target_ms, DEFAULT_DIFF_TIME_TARGET_MS),
                            Or(signals.diff_time_max, DEFAULT_DIFF_TIME_MAX))
      scroll == IF state.diff_scroll_max_pct >= SCROLL_MIN_PCT
                THEN Or(signals.scroll_depth, DEFAULT_SCROLL_DEPTH) ELSE 0
      conversation == IF "conversation" \in state.tabsViewed
                      THEN Or(signals.conversation_viewed, DEFAULT_CONVERSATION_VIEWED)
                      ELSE 0
      timeSinceLoad == at - Or(<<state.prLoadTime>>, at)
      minTime == Or(signals.min_time_before_merge_ms, DEFAULT_MIN_TIME_BEFORE_MERGE_MS)
      penalty == IF timeSinceLoad < minTime
                 THEN Or(signals.early_merge_penalty, DEFAULT_EARLY_MERGE_PENALTY)
                 ELSE 0
  IN  files + checks + diff + scroll + conversation - penalty

\* a variant that bounds the score from above only
clampScoreAbove(score) == MinOf(SCORE_ONE, score)

\* Math.max(0, Math.min(1, score))
clampScore(score) == MaxOf(0, MinOf(SCORE_ONE, score))

\* a variant in which a score equal to a threshold stays below it
tierOfStrict(score, nudge) ==
  IF score > Nullish(nudge.tier1_min, DEFAULT_TIER1_MIN) THEN 0
  ELSE IF score > Nullish(nudge.tier2_min, DEFAULT_TIER2_MIN) THEN 1
  ELSE 2

\* the tier of a clamped score
tierOf(score, nudge) ==
  IF score >= Nullish(nudge.tier1_min, DEFAULT_TIER1_MIN) THEN 0
  ELSE IF score >= Nullish(nudge.tier2_min, DEFAULT_TIER2_MIN) THEN 1
  ELSE 2

\* Math.round(score * 100) / 100 of a score that is not negative
roundScore(score) == ((score + 5) \div 10) * 10

\* diffTimeScore >= diffTimeMax * 0.9, on the unrounded quotient
sufficientDiffTime(state, nudge) ==
  LET target == Or(nudge.signals.diff_time_target_ms, DEFAULT_DIFF_TIME_TARGET_MS)
      max == Or(nudge.signals.diff_time_max, DEFAULT_DIFF_TIME_MAX)
  IN  IF state.diff_time_ms >= target THEN TRUE
      ELSE state.diff_time_ms * max * 10 >= max * 9 * target

\* the list `positive`, in the order of the pushes
positiveOf(state, nudge) ==
  (IF "files" \in state.tabsViewed THEN <<"files_changed">> ELSE <<>>)
  \o (IF state.checksViewed THEN <<"checks_viewed">> ELSE <<>>)
  \o (IF sufficientDiffTime(state, nudge) THEN <<"sufficient_diff_time">> ELSE <<>>)
  \o (IF state.diff_scroll_max_pct >= SCROLL_MIN_PCT THEN <<"good_scroll_depth">> ELSE <<>>)
  \o (IF "conversation" \in state.tabsViewed THEN <<"conversation_viewed">> ELSE <<>>)

\* the list `reasons`, in the order of the pushes
reasonsOf(state, nudge, at) ==
  LET timeSinceLoad == at - Or(<<state.prLoadTime>>, at)
      minTime == Or(nudge.signals.min_time_before_merge_ms, DEFAULT_MIN_TIME_BEFORE_MERGE_MS)
  IN  (IF "files" \in state.tabsViewed THEN <<>> ELSE <<"files_not_viewed">>)
      \o (IF state.checksViewed THEN <<>> ELSE <<"checks_not_viewed">>)
      \o (IF sufficientDiffTime(state, nudge) THEN <<>> ELSE <<"insufficient_diff_time">>)
      \o (IF state.diff_scroll_max_pct >= SCROLL_MIN_PCT THEN <<>> ELSE <<"low_scroll_depth">>)
      \o (IF timeSinceLoad < minTime THEN <<"merge_too_fast">> ELSE <<>>)

\* ReadinessCalculator.calculate: the returned score, tier, reasons and
\* positive, with the values the local variable score takes before and after
\* the clamp
calculate(state, nudge, at) ==
  LET unclamped == rawScore(state, nudge, at)
      clamped == clampScore(unclamped)
  IN  [ score |-> roundScore(clamped), tier |-> tierOf(clamped, nudge),
        reasons |-> reasonsOf(state, nudge, at), positive |-> positiveOf(state, nudge),
        unclamped |-> unclamped, clamped |-> clamped ]

\* Date.now() at the call
CallTimes == { 200000 }

\* prLoadTime: never set, 120 s, 30 s and 5 s before the call
LoadTimes == { 0, 80000, 170000, 195000 }

SessionStates ==
  [ tabsViewed : SUBSET {"files", "conversation"},
    checksViewed : BOOLEAN,
    diff_time_ms : {0, 28800, 60000},
    diff_scroll_max_pct : {0, 50, 80},
    prLoadTime : LoadTimes ]

\* nothing reviewed, merge attempted 5 s after load
ScenarioA == [tabsViewed |-> {}, checksViewed |-> FALSE, diff_time_ms |-> 0,
              diff_scroll_max_pct |-> 0, prLoadTime |-> 195000]

\* everything reviewed, merge attempted 120 s after load
ScenarioB == [tabsViewed |-> {"files", "conversation"}, checksViewed |-> TRUE,
              diff_time_ms |-> 60000, diff_scroll_max_pct |-> 80,
              prLoadTime |-> 80000]

\* files and checks viewed, the diff not read
ScenarioMid == [tabsViewed |-> {"files"}, checksViewed |-> TRUE, diff_time_ms |-> 0,
                diff_scroll_max_pct |-> 0, prLoadTime |-> 80000]

\* a policy without configured signals or thresholds
BareNudge ==
  [ signals |-> [ files_changed |-> <<>>, checks_viewed |-> <<>>,
                  diff_time_target_ms |-> <<>>, diff_time_max |-> <<>>,
                  scroll_depth |-> <<>>, conversation_viewed |-> <<>>,
                  min_time_before_merge_ms |-> <<>>, early_merge_penalty |-> <<>> ],
    tier1_min |-> <<>>,
    tier2_min |-> <<>> ]

Nudges ==
  { FallbackNudge,
    BareNudge,
    [FallbackNudge EXCEPT !.signals.files_changed = <<0>>],
    [FallbackNudge EXCEPT !.signals.files_changed = <<1200>>],
    [FallbackNudge EXCEPT !.signals.early_merge_penalty = <<0>>],
    [FallbackNudge EXCEPT !.tier1_min = <<600>>, !.tier2_min = <<0>>],
    [FallbackNudge EXCEPT !.tier1_min = <<697>>],
    [FallbackNudge EXCEPT !.tier1_min = <<300>>, !.tier2_min = <<600>>] }

(***************************************************************************)
(* State.                                                                  *)
(***************************************************************************)
VARIABLES
  now,          \* Date.now()
  policy,       \* PolicyLoader.policy
  isActive,     \* EventInterceptor.isActive (listeners registered)
  tokens,       \* storage: allow_token_<prId>_<elementId>
  eventBuffer,  \* storage: event_buffer
  savedState,   \* storage: state:<prId>, the persisted checkpointHistory
  history,      \* StateManager.currentState.checkpointHistory (in memory)
  hs,           \* the events dispatched so far, each with its handler run
  currentModal, \* Tier3Modal.currentModal: 0, or the handler that owns it
  modal,        \* the controls of the open surface
  domModals,    \* overlays attached to document.body, by owning handler
  pending,      \* SafeReplay.pendingElements / data-pais-pending
  timers,       \* setTimeout callbacks of consumeToken not yet run
  userLeft,     \* events the user may still cause
  classifyCall, \* one call of PolicyLoader.classifyCheckpoint: arguments, result
  loader,       \* one PolicyLoader: storage, packaged policy.json, load() progress
  readinessCall, \* one call of ReadinessCalculator.calculate: arguments, result
  callCount,    \* calls made so far of the method examined on its own
  href,         \* location.href
  sm,           \* StateManager: prId, currentState, and which build it is
  stateStore,   \* storage: state:<prId> for every PR
  tracker,      \* PAISController.metrics: <<>> or the MetricsTracker
  navs,         \* the calls of handleNavigation so far, each with its progress
  cooldownStore,\* storage: nudge_proactive_, nudge_premerge_, review_<prId>
  bannerShows,  \* the times Tier1Banner.show put up the proactive banner
  premergeCall, \* one call of CooldownManager.shouldShowPremergeNudge
  logCalls,     \* the calls of Logger.log so far, each with its progress
  redactCall,   \* one call of Logger.redact: build, payload, result
  storageFaults, \* the storage calls that rejected: the handler and what it awaited
  interceptors  \* the EventInterceptors the controller constructed, this.interceptor last

\* the session of the page and the calls examined with it
pageVars == <<callCount, href, sm, stateStore, tracker, navs, cooldownStore, bannerShows,
              premergeCall, logCalls, redactCall, storageFaults, interceptors>>

\* the calls examined on their own; the gate leaves them alone
callVars == <<classifyCall, loader, readinessCall, pageVars>>

\* the gate
gateVars == <<now, policy, isActive, tokens, eventBuffer, savedState, history, hs,
              currentModal, modal, domModals, pending, timers, userLeft>>

vars == <<now, policy, isActive, tokens, eventBuffer, savedState, history, hs,
          currentModal, modal, domModals, pending, timers, userLeft,
          classifyCall, loader, readinessCall, callCount,
          href, sm, stateStore, tracker, navs, cooldownStore, bannerShows,
          premergeCall, logCalls, redactCall, storageFaults, interceptors>>

NoModal == [checked |-> {}, text |-> <<>>, disabled |-> TRUE, nItems |-> 0,
            expected |-> ""]

\* Tier2Modal.isOpen(): Tier2Modal.show has no caller, currentModal stays null
tier2IsOpen == FALSE

\* Tier3Modal.isOpen()
tier3IsOpen == currentModal # 0

\* a variant that looks at the interceptor alone, not at the open surfaces
shouldInterceptActiveOnly == isActive

\* EventInterceptor.shouldIntercept
shouldIntercept ==
  IF ~isActive THEN FALSE
  ELSE IF tier3IsOpen THEN FALSE
  ELSE IF tier2IsOpen THEN FALSE
  ELSE TRUE

(***************************************************************************)
(* The synchronous turn of a handler: the code of handleClick,             *)
(* handleSubmit and handleKeydown up to its first await.  No branch of it  *)
(* calls preventDefault, so `prevented` (event.defaultPrevented when the   *)
(* dispatch ends) is FALSE on every path.                                  *)
(***************************************************************************)
handleClickSync(target) ==
  IF ~shouldIntercept THEN [pc |-> "ignored", el |-> None, kind |-> None, prevented |-> FALSE]
  ELSE IF findActionableElement(target) = None
    THEN [pc |-> "done", el |-> None, kind |-> None, prevented |-> FALSE]
  ELSE [pc |-> "hasValidToken", el |-> findActionableElement(target), kind |-> None,
        prevented |-> FALSE]

handleSubmitSync(form) ==
  IF ~shouldIntercept THEN [pc |-> "ignored", el |-> None, kind |-> None, prevented |-> FALSE]
  ELSE IF classifyForm(policy, form) = None
    THEN [pc |-> "done", el |-> None, kind |-> None, prevented |-> FALSE]
  ELSE [pc |-> "hasValidToken", el |-> form, kind |-> classifyForm(policy, form),
        prevented |-> FALSE]

handleKeydownSync(key, active) ==
  IF ~shouldIntercept THEN [pc |-> "ignored", el |-> None, kind |-> None, prevented |-> FALSE]
  ELSE IF key # "Enter"
    THEN [pc |-> "done", el |-> None, kind |-> None, prevented |-> FALSE]
  ELSE IF classifyAction(policy, active) = None
    THEN [pc |-> "done", el |-> None, kind |-> None, prevented |-> FALSE]
  ELSE IF classifyAction(policy, active) = Thrown
    THEN [pc |-> "done", el |-> active, kind |-> Thrown, prevented |-> FALSE]
  ELSE [pc |-> "hasValidToken", el |-> active, kind |-> classifyAction(policy, active),
        prevented |-> FALSE]

\* the kind the label of the event's control classifies into (None if the
\* control is not gated): what the trigger is, whatever the handler does
GatedKind(ev, target) ==
  IF ev = "submit" THEN classifyForm(policy, target)
  ELSE IF ev = "click" /\ findActionableElement(target) = None THEN None
  ELSE IF ev = "click" THEN classifyAction(policy, findActionableElement(target))
  ELSE classifyAction(policy, target)

\* the element whose token the handler of the event looks up
TokenElement(ev, target) ==
  IF ev = "click" THEN findActionableElement(target) ELSE target

(***************************************************************************)
(* One event and the run of its handler.                                   *)
(*   src      "user", "replay" (issued by SafeReplay.replay) or "default"  *)
(*            (the submit a click on a submit button causes)               *)
(*   cause    the handler whose replay or whose event caused this event    *)
(*   flow     for a replayed event and the events it causes: the handler   *)
(*            whose confirmation flow replayed; 0 otherwise                *)
(*   native   the host ran the default action of the event                 *)
(* the remaining fields record what the handler saw and did.               *)
(***************************************************************************)
NewEvent(ev, target, key, src, cause, flow) ==
  LET s == IF ev = "click" THEN handleClickSync(target)
           ELSE IF ev = "submit" THEN handleSubmitSync(target)
           ELSE handleKeydownSync(key, target)
  IN [ ev |-> ev, target |-> target, key |-> key, src |-> src, cause |-> cause,
       flow |-> flow,
       pc |-> s.pc, el |-> s.el, kind |-> s.kind,
       native |-> ~s.prevented,
       gated |-> IF key = "Enter" THEN GatedKind(ev, target) ELSE None,
       arrivedOpen |-> tier3IsOpen \/ tier2IsOpen,
       arrivedInactive |-> ~isActive,
       arrivedValid |-> IF TokenElement(ev, target) = None THEN FALSE
                        ELSE TokenValid(tokens[getElementId(TokenElement(ev, target))], now),
       sawValid |-> None,
       preventCalled |-> FALSE,
       tok |-> <<>>, buf |-> <<>>, snap |-> <<>>, phase |-> None,
       result |-> None,
       shown |-> 0, issued |-> 0, reissued |-> 0, dropped |-> FALSE ]

\* the events one dispatch produces: the event itself and, for a click on a
\* submit button whose default action was not prevented, the submit of its form
Dispatch(ev, target, key, src, cause, flow) ==
  LET first == NewEvent(ev, target, key, src, cause, flow)
      btn == IF ev = "click" THEN findActionableElement(target) ELSE None
  IN  IF btn # None /\ first.native /\ Dom[btn].type = "submit" /\ Dom[btn].form # None
      THEN << first,
              NewEvent("submit", Dom[btn].form, "Enter", "default", Len(hs) + 1, flow) >>
      ELSE << first >>

\* no call under examination
IdleClassify == [text |-> "", kinds |-> <<>>, result |-> "", calls |-> 0]
IdleLoader == [build |-> "module", custom |-> <<>>, packaged |-> <<>>,
               policy |-> <<>>, pc |-> "idle"]
IdleReadiness == [state |-> <<>>, nudge |-> <<>>, at |-> 0, result |-> <<>>,
                  calls |-> 0]

IdlePremerge == [pc |-> "idle", prId |-> None, record |-> <<>>, lastReview |-> <<>>,
                 result |-> FALSE]

IdleRedact == [pc |-> "idle", build |-> "module", payload |-> <<>>, result |-> <<>>]

IdlePage ==
  /\ callCount = 0
  /\ href = ""
  /\ sm = [prId |-> None, currentState |-> <<>>, build |-> "module"]
  /\ stateStore = <<>>
  /\ tracker = <<>>
  /\ navs = <<>>
  /\ cooldownStore = <<>>
  /\ bannerShows = <<>>
  /\ premergeCall = IdlePremerge
  /\ logCalls = <<>>
  /\ redactCall = IdleRedact
  /\ storageFaults = {}
  /\ interceptors = <<>>

NoCalls ==
  /\ classifyCall = IdleClassify
  /\ loader = IdleLoader
  /\ readinessCall = IdleReadiness
  /\ IdlePage

InitGate ==
  /\ now = 0
  /\ policy = ShortPolicy
  /\ isActive = TRUE
  /\ tokens = [k \in ElementIds |-> <<>>]
  /\ eventBuffer = <<>>
  /\ savedState = <<>>
  /\ history = <<>>
  /\ hs = <<>>
  /\ currentModal = 0
  /\ modal = NoModal
  /\ domModals = {}
  /\ pending = {}
  /\ timers = {}
  /\ userLeft = MaxUserEvents

Init == InitGate /\ NoCalls

\* what a user can do on the page: click a control, submit the form from
\* one of its fields, press a key on the focused control
UserInputs ==
  { <<"click", "btnConfirm", "Enter">>, <<"click", "btnAuto", "Enter">>,
    <<"click", "btnComment", "Enter">>, <<"keydown", "btnAuto", "Enter">>,
    <<"keydown", "btnComment", "Enter">>, <<"click", "btnIcon", "Enter">>,
    <<"click", "btnOutside", "Enter">>, <<"keydown", "btnOutside", "Enter">>,
    <<"submit", "formOutside", "Enter">>, <<"click", "divText", "Enter">>,
    <<"keydown", "btnAuto", "Space">> }

(***************************************************************************)
(* A user-initiated event: the capture listeners run (if registered).      *)
(***************************************************************************)
UserEvent(inp) ==
  LET new == Dispatch(inp[1], inp[2], inp[3], "user", 0, 0) IN
  /\ Len(new) <= userLeft
  /\ Len(hs) + Len(new) <= MaxHandlers
  /\ hs' = hs \o new
  /\ userLeft' = userLeft - Len(new)
  /\ UNCHANGED <<callVars, now, policy, isActive, tokens, eventBuffer, savedState,
                 history, currentModal, modal, domModals, pending, timers>>

UserTrigger == \E inp \in UserInputs : UserEvent(inp)

Handlers == 1..Len(hs)

At(h, pc) == h \in Handlers /\ hs[h].pc = pc

Key(h) == getElementId(hs[h].el)

\* Logger.log, first half: the event is built and the buffer is read
logStart(h, type) == [hs[h] EXCEPT !.pc = "logGet", !.phase = type]

(***************************************************************************)
(* `await hasValidToken(el)` returns.  With a valid token the handler goes *)
(* on to consumeToken; otherwise the action is classified (handleClick),   *)
(* preventDefault and stopImmediatePropagation are called on the event,    *)
(* whose dispatch ended when the handler first awaited, and                *)
(* handleCheckpoint starts with logCheckpointIntercepted.                  *)
(***************************************************************************)
\* a variant that lets a trigger through when the session is ready (tier 0)
afterTokenCheckReady(h, valid) ==
  LET kind == IF hs[h].ev = "click" THEN classifyAction(policy, hs[h].el)
              ELSE hs[h].kind
      ready == /\ readinessCall.state # <<>>
               /\ calculate(readinessCall.state, readinessCall.nudge,
                            readinessCall.at).tier = 0
  IN  IF valid THEN [hs[h] EXCEPT !.pc = "consumeGet", !.sawValid = "valid"]
      ELSE IF kind = None \/ ready
           THEN [hs[h] EXCEPT !.pc = "done", !.sawValid = "invalid"]
      ELSE [logStart(h, "checkpoint_intercepted") EXCEPT
              !.sawValid = "invalid", !.kind = kind, !.preventCalled = TRUE]

afterTokenCheck(h, valid) ==
  LET kind == IF hs[h].ev = "click" THEN classifyAction(policy, hs[h].el)
              ELSE hs[h].kind
  IN  IF valid THEN [hs[h] EXCEPT !.pc = "consumeGet", !.sawValid = "valid"]
      ELSE IF kind = None THEN [hs[h] EXCEPT !.pc = "done", !.sawValid = "invalid"]
      ELSE IF kind = Thrown
           THEN [hs[h] EXCEPT !.pc = "done", !.sawValid = "invalid", !.kind = Thrown]
      ELSE [logStart(h, "checkpoint_intercepted") EXCEPT
              !.sawValid = "invalid", !.kind = kind, !.preventCalled = TRUE]

HasValidToken(h) ==
  /\ At(h, "hasValidToken")
  /\ hs' = [hs EXCEPT ![h] = afterTokenCheck(h, TokenValid(tokens[Key(h)], now))]
  /\ UNCHANGED <<callVars, now, policy, isActive, tokens, eventBuffer, savedState, history,
                 currentModal, modal, domModals, pending, timers, userLeft>>

(***************************************************************************)
(* CooldownManager.consumeToken: read the record; if there is one, write   *)
(* it back with used = true and schedule its removal.                      *)
(***************************************************************************)
afterConsumeGet(h, tok) ==
  IF tok = <<>> THEN [hs[h] EXCEPT !.pc = "done"]
  ELSE [hs[h] EXCEPT !.pc = "consumeSet", !.tok = consumed(tok)]

ConsumeGet(h) ==
  /\ At(h, "consumeGet")
  /\ hs' = [hs EXCEPT ![h] = afterConsumeGet(h, tokens[Key(h)])]
  /\ UNCHANGED <<callVars, now, policy, isActive, tokens, eventBuffer, savedState, history,
                 currentModal, modal, domModals, pending, timers, userLeft>>

ConsumeSet(h) ==
  /\ At(h, "consumeSet")
  /\ tokens' = [tokens EXCEPT ![Key(h)] = hs[h].tok]
  /\ timers' = timers \cup { [key |-> Key(h), at |-> now + CLEANUP_DELAY_MS] }
  /\ hs' = [hs EXCEPT ![h].pc = "done", ![h].tok = <<>>]
  /\ UNCHANGED <<callVars, now, policy, isActive, eventBuffer, savedState, history,
                 currentModal, modal, domModals, pending, userLeft>>

\* the setTimeout callback of consumeToken: storage.remove(key)
CleanupTimer ==
  \E t \in timers :
    /\ now >= t.at
    /\ tokens' = [tokens EXCEPT ![t.key] = <<>>]
    /\ timers' = timers \ {t}
    /\ UNCHANGED <<callVars, now, policy, isActive, eventBuffer, savedState, history, hs,
                   currentModal, modal, domModals, pending, userLeft>>

\* time passes: by the cleanup delay, or by more than the token TTL (the
\* clock is read only against token timestamps and timers)
Tick ==
  \E d \in {CLEANUP_DELAY_MS, TOKEN_TTL_MS + 1} :
    /\ IF d = CLEANUP_DELAY_MS THEN \E t \in timers : now < t.at
       ELSE \E k \in ElementIds : TokenValid(tokens[k], now)
    /\ now + d <= MaxNow
    /\ now' = now + d
    /\ UNCHANGED <<callVars, policy, isActive, tokens, eventBuffer, savedState, history, hs,
                   currentModal, modal, domModals, pending, timers, userLeft>>

(***************************************************************************)
(* Logger.log: read event_buffer, push, drop the oldest beyond             *)
(* BUFFER_SIZE, write event_buffer.                                        *)
(***************************************************************************)
RECURSIVE ringCap(_, _)
ringCap(buffer, size) ==
  IF Len(buffer) > size THEN ringCap(Tail(buffer), size) ELSE buffer

LogGet(h) ==
  /\ At(h, "logGet")
  /\ hs' = [hs EXCEPT ![h].pc = "logSet", ![h].buf = eventBuffer]
  /\ UNCHANGED <<callVars, now, policy, isActive, tokens, eventBuffer, savedState, history,
                 currentModal, modal, domModals, pending, timers, userLeft>>

logWritten(h) ==
  ringCap(Append(hs[h].buf, [type |-> hs[h].phase, h |-> h]), BUFFER_SIZE)

\* a variant that keeps a history of the completed checkpoints only
recordCheckpointCompletedOnly(hist, kind, result, h) ==
  IF result # "completed" THEN hist
  ELSE Append(hist, [kind |-> kind, result |-> result, h |-> h])

\* a variant that refuses the new entry once the history is full
recordCheckpointDropNewest(hist, kind, result, h) ==
  IF Len(hist) >= HISTORY_MAX THEN hist
  ELSE Append(hist, [kind |-> kind, result |-> result, h |-> h])

\* StateManager.recordCheckpoint, the synchronous part: push, keep the last 10
recordCheckpoint(hist, kind, result, h) ==
  LET pushed == Append(hist, [kind |-> kind, result |-> result, h |-> h])
  IN  IF Len(pushed) > HISTORY_MAX THEN Tail(pushed) ELSE pushed

\* Tier3Modal.close()
closeModal == /\ currentModal' = 0
              /\ modal' = NoModal
              /\ domModals' = domModals \ {currentModal}

(***************************************************************************)
(* logCheckpointIntercepted returns: Tier3Modal.show.  It closes an open   *)
(* modal, returns 'aborted' without a template, and otherwise attaches a   *)
(* new overlay and waits for the user.                                     *)
(***************************************************************************)
ShowModal(h) ==
  LET template == getTier3Template(policy, hs[h].kind) IN
  /\ At(h, "logSet")
  /\ hs[h].phase = "checkpoint_intercepted"
  /\ eventBuffer' = logWritten(h)
  /\ IF template = <<>>
     THEN /\ closeModal
          /\ hs' = [hs EXCEPT ![h] = [logStart(h, "checkpoint_aborted") EXCEPT
                                        !.result = "aborted", !.buf = <<>>]]
     ELSE /\ currentModal' = h
          /\ domModals' = (domModals \ {currentModal}) \cup {h}
          /\ modal' = [checked |-> {}, text |-> <<>>, disabled |-> TRUE,
                       nItems |-> template[1].checklist,
                       expected |-> template[1].confirmation_text]
          /\ hs' = [hs EXCEPT ![h].pc = "modal", ![h].buf = <<>>, ![h].shown = 1]
  /\ UNCHANGED <<callVars, now, policy, isActive, tokens, savedState, history, pending,
                 timers, userLeft>>

(***************************************************************************)
(* logCheckpointCompleted / logCheckpointAborted returns:                  *)
(* state.recordCheckpoint pushes the entry and saves the state.            *)
(***************************************************************************)
RecordOutcome(h) ==
  /\ At(h, "logSet")
  /\ hs[h].phase \in {"checkpoint_completed", "checkpoint_aborted"}
  /\ eventBuffer' = logWritten(h)
  /\ history' = recordCheckpoint(history, hs[h].kind, hs[h].result, h)
  /\ hs' = [hs EXCEPT ![h].pc = "saveState", ![h].buf = <<>>, ![h].snap = history']
  /\ UNCHANGED <<callVars, now, policy, isActive, tokens, savedState, currentModal, modal,
                 domModals, pending, timers, userLeft>>

(***************************************************************************)
(* SafeReplay.replay, called when the state is saved after 'completed'.    *)
(* A pending element is not replayed; otherwise it is marked pending and   *)
(* createAllowToken builds the token record and writes it.                 *)
(***************************************************************************)
isPending(el) == el \in pending

replayStart(h) ==
  IF isPending(hs[h].el)
  THEN [hs[h] EXCEPT !.pc = "done", !.snap = <<>>, !.dropped = TRUE]
  ELSE [hs[h] EXCEPT !.pc = "createToken", !.snap = <<>>, !.tok = NewToken(policy, now)]

SaveState(h) ==
  /\ At(h, "saveState")
  /\ savedState' = hs[h].snap
  /\ IF hs[h].result = "completed"
     THEN /\ hs' = [hs EXCEPT ![h] = replayStart(h)]
          /\ pending' = pending \cup {hs[h].el}
     ELSE /\ hs' = [hs EXCEPT ![h].pc = "done", ![h].snap = <<>>]
          /\ UNCHANGED pending
  /\ UNCHANGED <<callVars, now, policy, isActive, tokens, eventBuffer, history,
                 currentModal, modal, domModals, timers, userLeft>>

\* the event replay() issues for an element: requestSubmit for a form,
\* click() for anything else
replayEvent(el) == IF Dom[el].tag = "FORM" THEN "submit" ELSE "click"

(***************************************************************************)
(* createToken returns: the token is in storage, the action is re-issued   *)
(* (its listeners run inside this turn) and the pending mark is cleared.   *)
(***************************************************************************)
CreateToken(h) ==
  LET new == Dispatch(replayEvent(hs[h].el), hs[h].el, "Enter", "replay", h, h) IN
  /\ At(h, "createToken")
  /\ tokens' = [tokens EXCEPT ![Key(h)] = hs[h].tok]
  /\ hs' = [hs EXCEPT ![h].pc = "done", ![h].tok = <<>>, ![h].issued = 1,
                       ![h].reissued = 1] \o new
  /\ pending' = pending \ {hs[h].el}
  /\ UNCHANGED <<callVars, now, policy, isActive, eventBuffer, savedState, history,
                 currentModal, modal, domModals, timers, userLeft>>

(***************************************************************************)
(* The user on the open Tier-3 surface.                                    *)
(***************************************************************************)
\* a checkbox is toggled: its change listener runs validate()
ToggleCheck ==
  \E i \in 1..modal.nItems :
    LET checked == IF i \in modal.checked THEN modal.checked \ {i}
                   ELSE modal.checked \cup {i}
    IN /\ tier3IsOpen
       /\ modal' = [modal EXCEPT !.checked = checked,
                      !.disabled = validateDisabled(checked, modal.nItems,
                                                    modal.text, modal.expected)]
       /\ UNCHANGED <<callVars, now, policy, isActive, tokens, eventBuffer, savedState,
                      history, hs, currentModal, domModals, pending, timers, userLeft>>

\* the text input changes: its input listener runs validate()
TypeText ==
  \E t \in Texts :
    /\ tier3IsOpen
    /\ t # modal.text
    /\ modal' = [modal EXCEPT !.text = t,
                   !.disabled = validateDisabled(modal.checked, modal.nItems,
                                                 t, modal.expected)]
    /\ UNCHANGED <<callVars, now, policy, isActive, tokens, eventBuffer, savedState,
                   history, hs, currentModal, domModals, pending, timers, userLeft>>

\* flows that ended 'completed' and have not replayed yet
toReplay == { h \in Handlers : hs[h].result = "completed" /\ hs[h].pc # "done" }

\* the events the replays of a set of flows dispatch, at most
RECURSIVE replayRoom(_)
replayRoom(flows) ==
  IF flows = {} THEN 0
  ELSE LET h == CHOOSE x \in flows : TRUE
       IN  Len(Dispatch(replayEvent(hs[h].el), hs[h].el, "Enter", "replay", h, h))
           + replayRoom(flows \ {h})

\* the promise of show() resolves: handleCheckpoint goes on with the log call
resolveModal(outcome) ==
  /\ closeModal
  /\ hs' = [hs EXCEPT ![currentModal] =
              [logStart(currentModal, IF outcome = "completed"
                                      THEN "checkpoint_completed"
                                      ELSE "checkpoint_aborted")
                 EXCEPT !.result = outcome]]

\* whether the click listener of the Proceed button runs: a disabled button
\* dispatches no click
proceedClickRuns == ~modal.disabled

\* whether the keydown listener of the overlay completes on Enter in the input
enterCompletes == ~modal.disabled

\* the user activates Proceed, or presses Enter in the text input
Confirm ==
  \E way \in {"proceed", "enter"} :
    /\ tier3IsOpen
    /\ IF way = "proceed" THEN proceedClickRuns ELSE enterCompletes
    /\ Len(hs) + replayRoom(toReplay \cup {currentModal}) <= MaxHandlers
    /\ resolveModal("completed")
    /\ UNCHANGED <<callVars, now, policy, isActive, tokens, eventBuffer, savedState,
                   history, pending, timers, userLeft>>

\* Cancel button, Escape key, click on the overlay outside the modal
Abort ==
  \E way \in {"cancel", "escape", "overlay"} :
    /\ tier3IsOpen
    /\ resolveModal("aborted")
    /\ UNCHANGED <<callVars, now, policy, isActive, tokens, eventBuffer, savedState,
                   history, pending, timers, userLeft>>

(***************************************************************************)
(* Navigation (PAISController).                                            *)
(***************************************************************************)
\* cleanup(): interceptor.stop() and tier3.close(), on leaving a PR page
\* (without an effect when the interceptor is stopped and no modal is open)
Cleanup ==
  /\ isActive \/ tier3IsOpen
  /\ userLeft > 0
  /\ userLeft' = userLeft - 1
  /\ isActive' = FALSE
  /\ closeModal
  /\ UNCHANGED <<callVars, now, policy, tokens, eventBuffer, savedState, history, hs,
                 pending, timers>>

\* setupForPR(): cleanup(), then a new interceptor is created and started
SetupForPR ==
  /\ userLeft > 0
  /\ userLeft' = userLeft - 1
  /\ isActive' = TRUE
  /\ closeModal
  /\ UNCHANGED <<callVars, now, policy, tokens, eventBuffer, savedState, history, hs,
                 pending, timers>>

Step(h) ==
  \/ HasValidToken(h)
  \/ ConsumeGet(h)
  \/ ConsumeSet(h)
  \/ LogGet(h)
  \/ ShowModal(h)
  \/ RecordOutcome(h)
  \/ SaveState(h)
  \/ CreateToken(h)

Next ==
  \/ UserTrigger
  \/ \E h \in Handlers : Step(h)
  \/ ToggleCheck
  \/ TypeText
  \/ Confirm
  \/ Abort
  \/ CleanupTimer
  \/ Tick
  \/ Cleanup
  \/ SetupForPR

Spec == Init /\ [][Next]_vars

(***************************************************************************)
(* The Tier-3 surface under the built-in fallback policy (three checklist  *)
(* items per kind).                                                        *)
(***************************************************************************)
InitModal ==
  /\ now = 0
  /\ policy = FallbackPolicy
  /\ isActive = TRUE
  /\ tokens = [k \in ElementIds |-> <<>>]
  /\ eventBuffer = <<>>
  /\ savedState = <<>>
  /\ history = <<>>
  /\ hs = <<>>
  /\ currentModal = 0
  /\ modal = NoModal
  /\ domModals = {}
  /\ pending = {}
  /\ timers = {}
  /\ userLeft = ModalUserEvents
  /\ classifyCall = IdleClassify
  /\ loader = IdleLoader
  /\ readinessCall \in { [state |-> st, nudge |-> FallbackNudge, at |-> t,
                          result |-> <<>>, calls |-> 0] :
                           st \in {ScenarioA, ScenarioB, ScenarioMid}, t \in CallTimes }
  /\ IdlePage

SpecModal == InitModal /\ [][Next]_vars

(***************************************************************************)
(* The same page with its merge queue button in use.                       *)
(***************************************************************************)
OtherInputs == { <<"click", "btnQueue", "Enter">>, <<"keydown", "btnQueue", "Enter">> }

UserTriggerElsewhere == \E inp \in OtherInputs : UserEvent(inp)

NextPage ==
  \/ Next
  \/ UserTriggerElsewhere

SpecPage == InitModal /\ [][NextPage]_vars

(***************************************************************************)
(* The token store on its own: the methods of CooldownManager called one   *)
(* at a time, each running to its end, and the clock read at a token's     *)
(* creation, one millisecond before its expiry, at its expiry and one      *)
(* millisecond after it.                                                   *)
(***************************************************************************)
TokenKeys == { getElementId("btnAuto"), getElementId("btnConfirm") }

createAllowToken(k) ==
  /\ tokens' = [tokens EXCEPT ![k] = NewToken(policy, now)]
  /\ UNCHANGED <<callVars, now, policy, isActive, eventBuffer, savedState, history, hs,
                 currentModal, modal, domModals, pending, timers, userLeft>>

consumeToken(k) ==
  /\ tokens[k] # <<>>
  /\ tokens' = [tokens EXCEPT ![k] = consumed(tokens[k])]
  /\ timers' = timers \cup { [key |-> k, at |-> now + CLEANUP_DELAY_MS] }
  /\ UNCHANGED <<callVars, now, policy, isActive, eventBuffer, savedState, history, hs,
                 currentModal, modal, domModals, pending, userLeft>>

\* the age of the stored token under k, -1 without a token
Age(k) == IF tokens[k] = <<>> THEN -1 ELSE now - tokens[k][1].timestamp

ExpiryTick ==
  \E d \in {TOKEN_TTL_MS - 1, 1} :
    /\ IF d = 1 THEN \E k \in TokenKeys : Age(k) \in {TOKEN_TTL_MS - 1, TOKEN_TTL_MS}
       ELSE \E k \in TokenKeys : Age(k) = 0
    /\ now + d <= MaxNow
    /\ now' = now + d
    /\ UNCHANGED <<callVars, policy, isActive, tokens, eventBuffer, savedState, history, hs,
                   currentModal, modal, domModals, pending, timers, userLeft>>

NextToken ==
  \/ \E k \in TokenKeys : createAllowToken(k)
  \/ \E k \in TokenKeys : consumeToken(k)
  \/ CleanupTimer
  \/ ExpiryTick

SpecToken == Init /\ [][NextToken]_vars

(***************************************************************************)
(* PolicyLoader.classifyCheckpoint on its own: a label and the kinds of a  *)
(* policy, in declaration order, and the function called on them.          *)
(***************************************************************************)
Labels == { "Confirm merge", "ENABLE AUTO-MERGE", "Confirm squash and merge",
            "Comment", "Squash" }

\* the patterns lists a kind may be configured with
PatternLists == { <<"Confirm merge">>, <<"merge">>, <<"(merge", "merge">>,
                  <<"confirm.merge">>, <<"auto">>, <<"(merge">>,
                  <<"Enable auto-merge", "(merge">> }

KindOrders == { <<"MERGE_NOW", "AUTO_MERGE_ENABLE">>,
                <<"AUTO_MERGE_ENABLE", "MERGE_NOW">> }

KindLists ==
  { << [kind |-> o[1], patterns |-> pa], [kind |-> o[2], patterns |-> pb] >> :
      o \in KindOrders, pa \in PatternLists, pb \in PatternLists }

InitClassify ==
  /\ InitGate
  /\ classifyCall \in { [text |-> t, kinds |-> ks, result |-> "", calls |-> 0] :
                          t \in Labels, ks \in KindLists }
  /\ loader = IdleLoader
  /\ readinessCall = IdleReadiness
  /\ IdlePage

ClassifyCheckpoint ==
  /\ classifyCall.calls < MaxCalls
  /\ classifyCall' = [classifyCall EXCEPT
                        !.result = classifyCheckpoint(classifyCall, classifyCall.text),
                        !.calls = @ + 1]
  /\ UNCHANGED <<gateVars, loader, readinessCall, pageVars>>

NextClassify == ClassifyCheckpoint

SpecClassify == InitClassify /\ [][NextClassify]_vars

(***************************************************************************)
(* ReadinessCalculator.calculate on its own: a session state, the          *)
(* nudge_thresholds of a policy, the time of the call.                     *)
(***************************************************************************)
InitReadiness ==
  /\ InitGate
  /\ classifyCall = IdleClassify
  /\ loader = IdleLoader
  /\ readinessCall \in { [state |-> st, nudge |-> n, at |-> t, result |-> <<>>,
                          calls |-> 0] :
                           st \in SessionStates, n \in Nudges, t \in CallTimes }
  /\ IdlePage

Calculate ==
  /\ readinessCall.calls < MaxCalls
  /\ readinessCall' =
       [readinessCall EXCEPT
          !.result = <<calculate(readinessCall.state, readinessCall.nudge,
                                 readinessCall.at)>>,
          !.calls = @ + 1]
  /\ UNCHANGED <<gateVars, classifyCall, loader, pageVars>>

NextReadiness == Calculate

SpecReadiness == InitReadiness /\ [][NextReadiness]_vars

(***************************************************************************)
(* PolicyLoader.load.  A policy document is described by the top-level     *)
(* fields validate() looks at; origin tells where the document comes from. *)
(* The options page stores any JSON document as custom_policy.             *)
(***************************************************************************)
PolicyDocs(origin) ==
  [ origin : {origin},
    checkpoint_matchers : {"absent", "nokinds", "kinds"},
    nudge_thresholds : BOOLEAN,
    ui_templates : BOOLEAN ]

\* PolicyLoader.getFallbackPolicy
FallbackDoc == [origin |-> "fallback", checkpoint_matchers |-> "kinds",
                nudge_thresholds |-> TRUE, ui_templates |-> TRUE]

\* PolicyLoader.validate (doc is <<>> for null)
validate(doc) ==
  IF doc = <<>> THEN FALSE
  ELSE IF doc[1].checkpoint_matchers = "absent" THEN FALSE
  ELSE IF doc[1].checkpoint_matchers = "nokinds" THEN FALSE
  ELSE IF ~doc[1].nudge_thresholds THEN FALSE
  ELSE IF ~doc[1].ui_templates THEN FALSE
  ELSE TRUE

\* PolicyLoader.loadDefaultPolicy: the packaged policy.json, or the fallback
\* policy when the fetch fails (packaged = <<>>)
loadDefaultPolicy(packaged) == IF packaged = <<>> THEN <<FallbackDoc>> ELSE packaged

InitLoader ==
  /\ InitGate
  /\ classifyCall = IdleClassify
  /\ readinessCall = IdleReadiness
  /\ loader \in { [build |-> b, custom |-> <<>>, packaged |-> pk, policy |-> <<>>,
                   pc |-> "idle"] :
                    b \in {"module", "bundle"},
                    pk \in {<<>>} \cup { <<d>> : d \in PolicyDocs("packaged") } }
  /\ IdlePage

\* options.js savePolicy: the parsed document is stored as it is
savePolicy ==
  \E d \in PolicyDocs("custom") :
    /\ loader.pc = "idle"
    /\ loader.custom = <<>>
    /\ loader' = [loader EXCEPT !.custom = <<d>>]
    /\ UNCHANGED <<gateVars, classifyCall, readinessCall, pageVars>>

\* load() is called and waits for storage.get('custom_policy')
LoadCall ==
  /\ loader.pc = "idle"
  /\ loader' = [loader EXCEPT !.pc = "getCustom"]
  /\ UNCHANGED <<gateVars, classifyCall, readinessCall, pageVars>>

\* storage.get returns.  Module: a custom policy is taken and validated, a
\* failed validation goes on to loadDefaultPolicy; without a custom policy
\* loadDefaultPolicy is awaited.  Bundle: a custom policy is taken as it is;
\* without one the packaged policy is fetched.
LoadCustom ==
  /\ loader.pc = "getCustom"
  /\ loader' =
       IF loader.custom # <<>>
       THEN [loader EXCEPT
               !.policy = loader.custom,
               !.pc = IF loader.build = "bundle" THEN "done"
                      ELSE IF validate(loader.custom) THEN "done"
                      ELSE "reloadDefault"]
       ELSE [loader EXCEPT
               !.pc = IF loader.build = "bundle" THEN "fetch" ELSE "loadDefault"]
  /\ UNCHANGED <<gateVars, classifyCall, readinessCall, pageVars>>

\* module: loadDefaultPolicy returns (no custom policy), then validate
LoadDefault ==
  /\ loader.pc = "loadDefault"
  /\ loader' = [loader EXCEPT
                  !.policy = loadDefaultPolicy(loader.packaged),
                  !.pc = IF validate(loadDefaultPolicy(loader.packaged)) THEN "done"
                         ELSE "reloadDefault"]
  /\ UNCHANGED <<gateVars, classifyCall, readinessCall, pageVars>>

\* module: loadDefaultPolicy returns after a failed validation
ReloadDefault ==
  /\ loader.pc = "reloadDefault"
  /\ loader' = [loader EXCEPT !.policy = loadDefaultPolicy(loader.packaged),
                              !.pc = "done"]
  /\ UNCHANGED <<gateVars, classifyCall, readinessCall, pageVars>>

\* bundle: the fetch of policy.json returns or throws
FetchBundled ==
  /\ loader.pc = "fetch"
  /\ loader' = [loader EXCEPT !.policy = loadDefaultPolicy(loader.packaged),
                              !.pc = "done"]
  /\ UNCHANGED <<gateVars, classifyCall, readinessCall, pageVars>>

NextLoader ==
  \/ savePolicy
  \/ LoadCall
  \/ LoadCustom
  \/ LoadDefault
  \/ ReloadDefault
  \/ FetchBundled

SpecLoader == InitLoader /\ [][NextLoader]_vars

(***************************************************************************)
(* StateManager.recordCheckpoint on its own: the calls a long session      *)
(* makes, one after the other.                                             *)
(***************************************************************************)
Results == {"completed", "aborted"}

RecordCheckpointCall ==
  /\ callCount < MaxRecords
  /\ \E result \in Results :
       history' = recordCheckpoint(history, "MERGE_NOW", result, callCount + 1)
  /\ callCount' = callCount + 1
  /\ UNCHANGED <<now, policy, isActive, tokens, eventBuffer, savedState, hs,
                 currentModal, modal, domModals, pending, timers, userLeft,
                 classifyCall, loader, readinessCall,
                 href, sm, stateStore, tracker, navs, cooldownStore, bannerShows, premergeCall, logCalls, redactCall, storageFaults, interceptors>>

NextHistory == RecordCheckpointCall

SpecHistory == Init /\ [][NextHistory]_vars

(***************************************************************************)
(* The session of the content script: PAISController.handleNavigation,     *)
(* StateManager, MetricsTracker and the proactive nudge.  A JavaScript     *)
(* value that may be something else than the expected object carries its   *)
(* type: tabsViewed is an array or not, diffMetrics is an object, null or  *)
(* undefined.  The entries these handlers log (pr_viewed, tab_viewed,      *)
(* nudge_shown) are awaited here and written in the logger's own           *)
(* specification.                                                          *)
(***************************************************************************)
PRs == {"o/r/1", "o/r/2"}
Urls == PRs \cup {"o/r/issues"}

\* StateManager.parsePRFromURL, as the prId initialize derives from it
parsePRFromURL(url) == IF url \in PRs THEN url ELSE None

ThisSession == "s1"
EarlierSession == "s0"

DiffObject(time, scroll) ==
  [type |-> "object", diff_time_ms |-> time, diff_scroll_max_pct |-> scroll]

\* StateManager.createFreshState
createFreshState(prId, sessionId, at) ==
  [ prId |-> prId, sessionId |-> sessionId, prLoadTime |-> at, lastActive |-> at,
    tabsViewed |-> [isArray |-> TRUE, items |-> <<>>],
    checksViewed |-> FALSE,
    diffMetrics |-> DiffObject(0, 0),
    nudgesShown |-> <<>>,
    checkpointHistory |-> <<>>,
    version |-> "1.0.0" ]

\* StateManager.isValidState; typeof null is 'object', and the bundled
\* StateManager does not look at diffMetrics
isValidState(build, state) ==
  /\ state.prId # ""
  /\ state.version = "1.0.0"
  /\ state.tabsViewed.isArray
  /\ build = "module" => state.diffMetrics.type \in {"object", "null"}

\* what storage may hold under state:<prId> when the page loads: nothing, the
\* record an earlier session left, or a record of another shape
ReviewedRecord(prId) ==
  [ createFreshState(prId, EarlierSession, 0) EXCEPT
      !.tabsViewed = [isArray |-> TRUE, items |-> <<"files">>],
      !.checksViewed = TRUE,
      !.diffMetrics = DiffObject(4000, 80),
      !.checkpointHistory = << [kind |-> "MERGE_NOW", result |-> "aborted", h |-> 1] >> ]

StoredRecords(prId) ==
  { ReviewedRecord(prId),
    [ReviewedRecord(prId) EXCEPT !.version = "0.9.0"],
    [ReviewedRecord(prId) EXCEPT !.prId = ""],
    [ReviewedRecord(prId) EXCEPT !.tabsViewed = [isArray |-> FALSE, items |-> <<>>]],
    [ReviewedRecord(prId) EXCEPT !.diffMetrics =
        [type |-> "undefined", diff_time_ms |-> 0, diff_scroll_max_pct |-> 0]],
    [ReviewedRecord(prId) EXCEPT !.diffMetrics =
        [type |-> "null", diff_time_ms |-> 0, diff_scroll_max_pct |-> 0]] }

\* The methods of StateManager act on the manager and on storage together:
\* w.sm is the manager (prId, currentState), w.store the state:<prId> keys.

\* StateManager.save
save(w, at) ==
  IF w.sm.currentState # <<>> /\ w.sm.prId # None
  THEN LET st == [w.sm.currentState[1] EXCEPT !.lastActive = at]
       IN  [ sm |-> [w.sm EXCEPT !.currentState = <<st>>],
             store |-> [w.store EXCEPT ![w.sm.prId] = <<st>>] ]
  ELSE w

Includes(items, x) == \E i \in 1..Len(items) : items[i] = x

\* a variant that records every visit
recordTabViewEvery(w, tab, at) ==
  IF w.sm.currentState = <<>> THEN w
  ELSE save([w EXCEPT !.sm.currentState[1].tabsViewed.items = Append(@, tab)], at)

\* StateManager.recordTabView
recordTabView(w, tab, at) ==
  IF w.sm.currentState = <<>> THEN w
  ELSE IF Includes(w.sm.currentState[1].tabsViewed.items, tab) THEN w
  ELSE save([w EXCEPT !.sm.currentState[1].tabsViewed.items = Append(@, tab)], at)

\* StateManager.recordChecksViewed
recordChecksViewed(w, at) ==
  IF w.sm.currentState = <<>> THEN w
  ELSE IF w.sm.currentState[1].checksViewed THEN w
  ELSE save([w EXCEPT !.sm.currentState[1].checksViewed = TRUE], at)

\* StateManager.addDiffTime; reading a field of null or undefined throws,
\* and the promise of the call is rejected with nothing changed
addDiffTime(w, ms, at) ==
  IF w.sm.currentState = <<>> THEN w
  ELSE IF w.sm.currentState[1].diffMetrics.type # "object" THEN w
  ELSE save([w EXCEPT !.sm.currentState[1].diffMetrics.diff_time_ms = @ + ms], at)

\* StateManager.updateDiffMetrics with both fields given
updateDiffMetrics(w, time, scroll, at) ==
  IF w.sm.currentState = <<>> THEN w
  ELSE save([w EXCEPT !.sm.currentState[1].diffMetrics = DiffObject(time, scroll)], at)

\* StateManager.recordNudgeShown('proactive', tier)
recordNudgeShown(w, tier, at) ==
  IF w.sm.currentState = <<>> THEN w
  ELSE save([w EXCEPT !.sm.currentState[1].nudgesShown =
                            << [timestamp |-> at, tier |-> tier] >>], at)

\* StateManager.getDiffTimeAccumulated
getDiffTimeAccumulated(w) ==
  IF w.sm.currentState = <<>> THEN 0
  ELSE IF w.sm.currentState[1].diffMetrics.type # "object" THEN 0
  ELSE w.sm.currentState[1].diffMetrics.diff_time_ms

\* StateManager.getMissingItems
getMissingItems(w) ==
  IF w.sm.currentState = <<>> THEN {"Files changed", "Checks"}
  ELSE (IF Includes(w.sm.currentState[1].tabsViewed.items, "files")
        THEN {} ELSE {"Files changed"})
       \cup (IF w.sm.currentState[1].checksViewed THEN {} ELSE {"Checks"})

\* the session state in the shape ReadinessCalculator.calculate reads it
readinessOf(st) ==
  [ tabsViewed |-> { st.tabsViewed.items[i] : i \in 1..Len(st.tabsViewed.items) },
    checksViewed |-> st.checksViewed,
    diff_time_ms |-> IF st.diffMetrics.type = "object"
                     THEN st.diffMetrics.diff_time_ms ELSE 0,
    diff_scroll_max_pct |-> IF st.diffMetrics.type = "object"
                            THEN st.diffMetrics.diff_scroll_max_pct ELSE 0,
    prLoadTime |-> st.prLoadTime ]

\* new MetricsTracker(...).start() at a time; nextSave is when its 5-second
\* interval runs next, observedOn the pages whose scrolling and diff
\* visibility it has measured, base the diff time accumulated when it started
\* and visibleMs the time the diff has been in view since
StartedTracker(at, base) ==
  [isTracking |-> TRUE, maxScroll |-> 0, diffStart |-> <<>>,
   nextSave |-> at + SAVE_INTERVAL_MS, observedOn |-> {},
   base |-> base, visibleMs |-> 0]

\* MetricsTracker.save (saveMetrics)
saveMetrics(w, t, at) ==
  LET dt == getDiffTimeAccumulated(w)
            + (IF t.diffStart # <<>> THEN at - t.diffStart[1] ELSE 0)
  IN  updateDiffMetrics(w, dt, t.maxScroll, at)

\* MetricsTracker.stop, its effect on the manager and on storage
stopMetrics(w, t, at) ==
  LET saved == saveMetrics(w, t, at)
  IN  IF t.diffStart # <<>> THEN addDiffTime(saved, at - t.diffStart[1], at)
      ELSE saved

\* PAISController.cleanup: this.metrics?.stop(), its effect on the manager
\* and on storage; trk is this.metrics, <<>> before the first setupForPR
cleanup(w, trk, at) == IF trk = <<>> THEN w ELSE stopMetrics(w, trk[1], at)

\* this.metrics after cleanup
stopped(trk) ==
  IF trk = <<>> THEN trk
  ELSE << [trk[1] EXCEPT !.isTracking = FALSE, !.diffStart = <<>>] >>

\* PAISController.cleanup: this.interceptor?.stop(); ics are the interceptors
\* constructed so far, this.interceptor the last
stopInterceptor(ics) ==
  IF ics = <<>> THEN ics ELSE [ics EXCEPT ![Len(ics)].isActive = FALSE]

\* setupForPR: cleanup(), then this.interceptor = new EventInterceptor(...)
\* and start(), which registers the listeners of an interceptor not active
startInterceptor(ics) == Append(stopInterceptor(ics), [isActive |-> TRUE])

NoCooldowns == [proactive |-> <<>>, premerge |-> <<>>, review |-> <<>>]

W == [sm |-> sm, store |-> stateStore]

\* the controller listens for navigation once init() has set up the first page
Listening == navs # <<>> /\ navs[1].pc \notin {"initGet", "initSaved", "logPR"}

\* handleNavigation up to its first await: a page that is not a PR is cleaned
\* up; for a PR, initialize sets prId and asks storage for state:<prId>
handleNavigation(u) ==
  /\ IF parsePRFromURL(u) = None
     THEN /\ sm' = cleanup(W, tracker, now).sm
          /\ stateStore' = cleanup(W, tracker, now).store
          /\ tracker' = stopped(tracker)
          /\ interceptors' = stopInterceptor(interceptors)
          /\ navs' = Append(navs, [pc |-> "done", key |-> None, due |-> 0, existing |-> <<>>, record |-> <<>>])
     ELSE /\ sm' = [sm EXCEPT !.prId = parsePRFromURL(u)]
          /\ navs' = Append(navs, [pc |-> "initGet", key |-> parsePRFromURL(u), due |-> 0,
                                existing |-> stateStore[parsePRFromURL(u)], record |-> <<>>])
          /\ UNCHANGED <<stateStore, tracker, interceptors>>

\* the user follows a link
Navigate(u) ==
  /\ Listening
  /\ Len(navs) < MaxNavs
  /\ u # href
  /\ href' = u
  /\ handleNavigation(u)
  /\ UNCHANGED <<gateVars, classifyCall, loader, readinessCall, callCount,
                 cooldownStore, bannerShows, premergeCall, logCalls, redactCall, storageFaults>>

\* a second event for the page shown (turbo:load, turbo:render and
\* turbolinks:load all call handleNavigation)
TurboEvent ==
  /\ Listening
  /\ Len(navs) < MaxNavs
  /\ handleNavigation(href)
  /\ UNCHANGED <<gateVars, classifyCall, loader, readinessCall, callCount,
                 href, cooldownStore, bannerShows, premergeCall, logCalls, redactCall, storageFaults>>

NavAt(f, pc) == f \in 1..Len(navs) /\ navs[f].pc = pc

\* initialize after storage answered with what it held when it was asked:
\* keep a valid record, else start fresh; then save()
NavInitialized(f) ==
  LET existing == navs[f].existing
      state == IF existing # <<>> /\ isValidState(sm.build, existing[1])
               THEN [existing[1] EXCEPT !.sessionId = ThisSession, !.lastActive = now]
               ELSE createFreshState(sm.prId, ThisSession, now)
      w == save([sm |-> [sm EXCEPT !.currentState = <<state>>], store |-> stateStore], now)
  IN
  /\ NavAt(f, "initGet")
  /\ sm' = w.sm
  /\ stateStore' = w.store
  /\ navs' = [navs EXCEPT ![f].pc = "initSaved"]
  /\ UNCHANGED <<gateVars, classifyCall, loader, readinessCall, callCount,
                 href, tracker, cooldownStore, bannerShows, premergeCall, logCalls, redactCall, storageFaults, interceptors>>

\* initialize returns; on a PR page logPRViewed is called
NavLogPR(f) ==
  /\ NavAt(f, "initSaved")
  /\ navs' = [navs EXCEPT ![f].pc = IF parsePRFromURL(href) # None THEN "logPR" ELSE "done"]
  /\ UNCHANGED <<gateVars, classifyCall, loader, readinessCall, callCount,
                 href, sm, stateStore, tracker, cooldownStore, bannerShows, premergeCall, logCalls, redactCall, storageFaults, interceptors>>

\* logPRViewed returns: setupForPR cleans up the previous page, starts a new
\* tracker, and showProactiveNudge asks storage for nudge_proactive_<prId>
NavSetup(f) ==
  /\ NavAt(f, "logPR")
  /\ sm' = cleanup(W, tracker, now).sm
  /\ stateStore' = cleanup(W, tracker, now).store
  /\ tracker' = <<StartedTracker(now, getDiffTimeAccumulated(cleanup(W, tracker, now)))>>
  /\ interceptors' = startInterceptor(interceptors)
  /\ navs' = [navs EXCEPT ![f].pc = "nudgeGet", ![f].key = sm.prId,
                          ![f].record = cooldownStore[sm.prId].proactive]
  /\ UNCHANGED <<now, policy, isActive, tokens, eventBuffer, savedState, history, hs, currentModal,
                 modal, domModals, pending, timers, userLeft,
                 classifyCall, loader, readinessCall, callCount,
                 href, cooldownStore, bannerShows, premergeCall, logCalls, redactCall, storageFaults>>

\* CooldownManager.shouldShowProactiveNudge, after storage answered
shouldShowProactiveNudge(record, at) ==
  IF record = <<>> THEN TRUE ELSE at - record[1] > PROACTIVE_NUDGE_MS

\* showProactiveNudge after the cooldown check: the 2-second timer is set
NavNudgeCheck(f) ==
  /\ NavAt(f, "nudgeGet")
  /\ navs' = [navs EXCEPT
       ![f].pc = IF shouldShowProactiveNudge(navs[f].record, now)
                 THEN "timer" ELSE "done",
       ![f].due = now + NUDGE_DELAY_MS]
  /\ UNCHANGED <<gateVars, classifyCall, loader, readinessCall, callCount,
                 href, sm, stateStore, tracker, cooldownStore, bannerShows, premergeCall, logCalls, redactCall, storageFaults, interceptors>>

\* the timer fires: nothing when nothing is missing; else the banner is
\* shown and recordNudgeShown saves the state
NavNudgeShow(f) ==
  LET w == recordNudgeShown(W, calculate(readinessOf(sm.currentState[1]),
                                         FallbackNudge, now).tier, now)
  IN
  /\ NavAt(f, "timer")
  /\ now >= navs[f].due
  /\ IF getMissingItems(W) = {}
     THEN /\ navs' = [navs EXCEPT ![f].pc = "done"]
          /\ UNCHANGED <<sm, stateStore, bannerShows>>
     ELSE /\ bannerShows' = Append(bannerShows, [prId |-> sm.prId, at |-> now])
          /\ sm' = w.sm
          /\ stateStore' = w.store
          /\ navs' = [navs EXCEPT ![f].pc = "nudgeRec"]
  /\ UNCHANGED <<gateVars, classifyCall, loader, readinessCall, callCount,
                 href, tracker, cooldownStore, premergeCall, logCalls, redactCall, storageFaults, interceptors>>

\* recordNudgeShown returns: recordProactiveNudge writes nudge_proactive_<prId>
NavNudgeRecord(f) ==
  /\ NavAt(f, "nudgeRec")
  /\ cooldownStore' = [cooldownStore EXCEPT ![sm.prId].proactive = <<now>>]
  /\ navs' = [navs EXCEPT ![f].pc = "nudgeLog"]
  /\ UNCHANGED <<gateVars, classifyCall, loader, readinessCall, callCount,
                 href, sm, stateStore, tracker, bannerShows, premergeCall, logCalls, redactCall, storageFaults, interceptors>>

\* recordProactiveNudge returns: logNudgeShown
NavNudgeLogged(f) ==
  /\ NavAt(f, "nudgeLog")
  /\ navs' = [navs EXCEPT ![f].pc = "done"]
  /\ UNCHANGED <<now, policy, isActive, tokens, eventBuffer, savedState, history, hs, currentModal,
                 modal, domModals, pending, timers, userLeft,
                 classifyCall, loader, readinessCall, callCount,
                 href, sm, stateStore, tracker, cooldownStore, bannerShows, premergeCall, logCalls, redactCall, storageFaults, interceptors>>

Tracking == tracker # <<>> /\ tracker[1].isTracking

\* the user clicks a tab: recordTabView and logTabViewed
TabClick(tab) ==
  /\ Tracking
  /\ userLeft > 0
  /\ userLeft' = userLeft - 1
  /\ sm' = recordTabView(W, tab, now).sm
  /\ stateStore' = recordTabView(W, tab, now).store
  /\ UNCHANGED <<now, policy, isActive, tokens, eventBuffer, savedState, history, hs, currentModal,
                 modal, domModals, pending, timers,
                 classifyCall, loader, readinessCall, callCount,
                 href, tracker, navs, cooldownStore, bannerShows, premergeCall, logCalls, redactCall, storageFaults, interceptors>>

\* the user scrolls the diff
Scroll(pct) ==
  /\ Tracking
  /\ userLeft > 0
  /\ userLeft' = userLeft - 1
  /\ tracker' = << [tracker[1] EXCEPT !.maxScroll = MaxOf(@, pct),
                                      !.observedOn = @ \cup {href}] >>
  /\ UNCHANGED <<now, policy, isActive, tokens, eventBuffer, savedState, history, hs,
                 currentModal, modal, domModals, pending, timers,
                 classifyCall, loader, readinessCall, callCount,
                 href, sm, stateStore, navs, cooldownStore, bannerShows, premergeCall, logCalls, redactCall, storageFaults, interceptors>>

\* the diff scrolls into view, or out of it
DiffIntersects ==
  /\ Tracking
  /\ userLeft > 0
  /\ userLeft' = userLeft - 1
  /\ IF tracker[1].diffStart = <<>>
     THEN /\ tracker' = << [tracker[1] EXCEPT !.diffStart = <<now>>,
                                              !.observedOn = @ \cup {href}] >>
          /\ UNCHANGED <<sm, stateStore>>
     ELSE /\ tracker' = << [tracker[1] EXCEPT !.diffStart = <<>>] >>
          /\ sm' = addDiffTime(W, now - tracker[1].diffStart[1], now).sm
          /\ stateStore' = addDiffTime(W, now - tracker[1].diffStart[1], now).store
  /\ UNCHANGED <<now, policy, isActive, tokens, eventBuffer, savedState, history, hs,
                 currentModal, modal, domModals, pending, timers,
                 classifyCall, loader, readinessCall, callCount,
                 href, navs, cooldownStore, bannerShows, premergeCall, logCalls, redactCall, storageFaults, interceptors>>

\* the checks section scrolls into view
ChecksIntersect ==
  /\ Tracking
  /\ userLeft > 0
  /\ userLeft' = userLeft - 1
  /\ sm' = recordChecksViewed(W, now).sm
  /\ stateStore' = recordChecksViewed(W, now).store
  /\ UNCHANGED <<now, policy, isActive, tokens, eventBuffer, savedState, history, hs,
                 currentModal, modal, domModals, pending, timers,
                 classifyCall, loader, readinessCall, callCount,
                 href, tracker, navs, cooldownStore, bannerShows, premergeCall, logCalls, redactCall, storageFaults, interceptors>>

\* the 5-second interval of the tracker
SaveInterval ==
  /\ Tracking
  /\ now >= tracker[1].nextSave
  /\ tracker' = << [tracker[1] EXCEPT !.nextSave = @ + SAVE_INTERVAL_MS] >>
  /\ sm' = saveMetrics(W, tracker[1], now).sm
  /\ stateStore' = saveMetrics(W, tracker[1], now).store
  /\ UNCHANGED <<gateVars, classifyCall, loader, readinessCall, callCount,
                 href, navs, cooldownStore, bannerShows, premergeCall, logCalls, redactCall, storageFaults, interceptors>>

\* time passes, but not past a timer that is due
Elapse(d) ==
  /\ now + d <= MaxSessionNow
  /\ \A f \in 1..Len(navs) : navs[f].pc = "timer" => now + d <= navs[f].due
  /\ now' = now + d
  /\ tracker' = IF Tracking /\ tracker[1].diffStart # <<>>
                THEN << [tracker[1] EXCEPT !.visibleMs = @ + d] >>
                ELSE tracker
  /\ UNCHANGED <<policy, isActive, tokens, eventBuffer, savedState, history, hs,
                 currentModal, modal, domModals, pending, timers, userLeft,
                 classifyCall, loader, readinessCall, callCount,
                 href, sm, stateStore, navs, cooldownStore, bannerShows, premergeCall, logCalls, redactCall, storageFaults, interceptors>>

NavStep(f) ==
  \/ NavInitialized(f)
  \/ NavLogPR(f)
  \/ NavSetup(f)
  \/ NavNudgeCheck(f)
  \/ NavNudgeShow(f)
  \/ NavNudgeRecord(f)
  \/ NavNudgeLogged(f)

\* the page loads on a PR: init() calls handleNavigation
InitSession ==
  /\ InitGate
  /\ classifyCall = IdleClassify
  /\ loader = IdleLoader
  /\ readinessCall = IdleReadiness
  /\ callCount = 0
  /\ href = "o/r/1"
  /\ sm = [prId |-> "o/r/1", currentState |-> <<>>, build |-> "bundle"]
  /\ stateStore \in { [p \in PRs |-> IF p = "o/r/1" THEN r ELSE <<>>] :
                        r \in {<<>>, <<ReviewedRecord("o/r/1")>>} }
  /\ tracker = <<>>
  /\ navs = << [pc |-> "initGet", key |-> "o/r/1", due |-> 0,
               existing |-> stateStore["o/r/1"], record |-> <<>>] >>
  /\ cooldownStore = [p \in PRs |-> NoCooldowns]
  /\ bannerShows = <<>>
  /\ premergeCall = IdlePremerge
  /\ logCalls = <<>>
  /\ redactCall = IdleRedact
  /\ storageFaults = {}
  /\ interceptors = <<>>

NextSession ==
  \/ \E u \in Urls : Navigate(u)
  \/ TurboEvent
  \/ \E f \in 1..MaxNavs : NavStep(f)
  \/ \E tab \in {"files"} : TabClick(tab)
  \/ \E pct \in {80} : Scroll(pct)
  \/ DiffIntersects
  \/ ChecksIntersect
  \/ SaveInterval
  \/ \E d \in {NUDGE_DELAY_MS} : Elapse(d)

SpecSession == InitSession /\ [][NextSession]_vars

(***************************************************************************)
(* The controller under navigation alone: up to MaxNavEvents calls of      *)
(* handleNavigation on one page load, each suspended at its awaits while   *)
(* later ones start, and the interceptors setupForPR and cleanup start and *)
(* stop.                                                                   *)
(***************************************************************************)
\* a navigation event: the user follows a link, or Turbo announces the page
\* shown once more
NavigationEvent(u) ==
  /\ Listening
  /\ Len(navs) < MaxNavEvents
  /\ href' = u
  /\ handleNavigation(u)
  /\ UNCHANGED <<gateVars, classifyCall, loader, readinessCall, callCount,
                 cooldownStore, bannerShows, premergeCall, logCalls, redactCall, storageFaults>>

NextNavigation ==
  \/ \E u \in Urls : NavigationEvent(u)
  \/ \E f \in 1..MaxNavEvents : NavStep(f)
  \/ \E d \in {NUDGE_DELAY_MS} : Elapse(d)

SpecNavigation == InitSession /\ [][NextNavigation]_vars

(***************************************************************************)
(* StateManager on its own: its methods called by a page, initialize in    *)
(* two steps around its storage read.                                      *)
(***************************************************************************)
\* initialize(url) up to its await
InitializeCall(u) ==
  /\ Len(navs) < MaxNavs
  /\ IF parsePRFromURL(u) = None
     THEN /\ sm' = [sm EXCEPT !.prId = None, !.currentState = <<>>]
          /\ navs' = Append(navs, [pc |-> "done", key |-> None, due |-> 0, existing |-> <<>>, record |-> <<>>])
     ELSE /\ sm' = [sm EXCEPT !.prId = parsePRFromURL(u)]
          /\ navs' = Append(navs, [pc |-> "initGet", key |-> parsePRFromURL(u), due |-> 0,
                                existing |-> stateStore[parsePRFromURL(u)], record |-> <<>>])
  /\ UNCHANGED <<gateVars, classifyCall, loader, readinessCall, callCount,
                 href, stateStore, tracker, cooldownStore, bannerShows, premergeCall, logCalls, redactCall, storageFaults, interceptors>>

\* save() returned: initialize returns currentState
InitializeReturns(f) ==
  /\ NavAt(f, "initSaved")
  /\ navs' = [navs EXCEPT ![f].pc = "done"]
  /\ UNCHANGED <<gateVars, classifyCall, loader, readinessCall, callCount,
                 href, sm, stateStore, tracker, cooldownStore, bannerShows, premergeCall, logCalls, redactCall, storageFaults, interceptors>>

\* the page calls the other methods once its first initialize has returned
Ready == navs # <<>> /\ navs[1].pc = "done"

RecordTabViewCall(tab) ==
  /\ Ready
  /\ callCount < MaxCalls
  /\ callCount' = callCount + 1
  /\ sm' = recordTabView(W, tab, now).sm
  /\ stateStore' = recordTabView(W, tab, now).store
  /\ UNCHANGED <<gateVars, classifyCall, loader, readinessCall,
                 href, tracker, navs, cooldownStore, bannerShows, premergeCall, logCalls, redactCall, storageFaults, interceptors>>

RecordChecksViewedCall ==
  /\ Ready
  /\ userLeft > 0
  /\ userLeft' = userLeft - 1
  /\ sm' = recordChecksViewed(W, now).sm
  /\ stateStore' = recordChecksViewed(W, now).store
  /\ UNCHANGED <<now, policy, isActive, tokens, eventBuffer, savedState, history, hs,
                 currentModal, modal, domModals, pending, timers,
                 classifyCall, loader, readinessCall, callCount,
                 href, tracker, navs, cooldownStore, bannerShows, premergeCall, logCalls, redactCall, storageFaults, interceptors>>

AddDiffTimeCall(ms) ==
  /\ Ready
  /\ userLeft > 0
  /\ userLeft' = userLeft - 1
  /\ sm' = addDiffTime(W, ms, now).sm
  /\ stateStore' = addDiffTime(W, ms, now).store
  /\ UNCHANGED <<now, policy, isActive, tokens, eventBuffer, savedState, history, hs,
                 currentModal, modal, domModals, pending, timers,
                 classifyCall, loader, readinessCall, callCount,
                 href, tracker, navs, cooldownStore, bannerShows, premergeCall, logCalls, redactCall, storageFaults, interceptors>>

InitState ==
  /\ InitGate
  /\ classifyCall = IdleClassify
  /\ loader = IdleLoader
  /\ readinessCall = IdleReadiness
  /\ callCount = 0
  /\ href = ""
  /\ sm \in { [prId |-> None, currentState |-> <<>>, build |-> b] :
                b \in {"module", "bundle"} }
  /\ stateStore \in { [p \in PRs |-> IF p = "o/r/1" THEN r ELSE <<>>] :
                        r \in {<<>>} \cup { <<d>> : d \in StoredRecords("o/r/1") } }
  /\ tracker = <<>>
  /\ navs = <<>>
  /\ cooldownStore = [p \in PRs |-> NoCooldowns]
  /\ bannerShows = <<>>
  /\ premergeCall = IdlePremerge
  /\ logCalls = <<>>
  /\ redactCall = IdleRedact
  /\ storageFaults = {}
  /\ interceptors = <<>>

NextState ==
  \/ \E u \in Urls : InitializeCall(u)
  \/ \E f \in 1..MaxNavs : NavInitialized(f)
  \/ \E f \in 1..MaxNavs : InitializeReturns(f)
  \/ \E tab \in {"files", "conversation"} : RecordTabViewCall(tab)
  \/ RecordChecksViewedCall
  \/ \E ms \in {NUDGE_DELAY_MS} : AddDiffTimeCall(ms)
  \/ \E d \in {NUDGE_DELAY_MS} : Elapse(d)

SpecState == InitState /\ [][NextState]_vars

(***************************************************************************)
(* CooldownManager's pre-merge cooldown on its own: recordPremergeNudge,   *)
(* recordReview and shouldShowPremergeNudge called at the times of         *)
(* CooldownTimes, the last in three steps around its two storage reads.    *)
(***************************************************************************)
CooldownTimes == {0, 1000, 2000, 400000}

\* a variant in which the nudge comes back once premerge_reset_after_review_ms
\* have passed
shouldShowPremergeNudgeTimed(record, lastReview, at) ==
  \/ lastReview # <<>> /\ lastReview[1] > record[1]
  \/ at - record[1] > PREMERGE_RESET_MS

\* CooldownManager.shouldShowPremergeNudge once both records are read
shouldShowPremergeNudge(record, lastReview, at) ==
  lastReview # <<>> /\ lastReview[1] > record[1]

RecordPremergeNudgeCall(p) ==
  /\ cooldownStore' = [cooldownStore EXCEPT ![p].premerge = <<now>>]
  /\ UNCHANGED <<gateVars, classifyCall, loader, readinessCall, callCount,
                 href, sm, stateStore, tracker, navs, bannerShows, premergeCall, logCalls, redactCall, storageFaults, interceptors>>

RecordReviewCall(p) ==
  /\ cooldownStore' = [cooldownStore EXCEPT ![p].review = <<now>>]
  /\ UNCHANGED <<gateVars, classifyCall, loader, readinessCall, callCount,
                 href, sm, stateStore, tracker, navs, bannerShows, premergeCall, logCalls, redactCall, storageFaults, interceptors>>

\* shouldShowPremergeNudge(prId) up to its first await
ShouldShowPremergeCall(p) ==
  /\ premergeCall.pc \in {"idle", "done"}
  /\ callCount < MaxPremergeCalls
  /\ callCount' = callCount + 1
  /\ premergeCall' = [pc |-> "record", prId |-> p, record |-> cooldownStore[p].premerge,
                      lastReview |-> <<>>, result |-> FALSE]
  /\ UNCHANGED <<gateVars, classifyCall, loader, readinessCall,
                 href, sm, stateStore, tracker, navs, cooldownStore, bannerShows,
                 logCalls, redactCall, storageFaults, interceptors>>

\* the pre-merge record is read: true without one, else read the review
ShouldShowPremergeRecord ==
  /\ premergeCall.pc = "record"
  /\ premergeCall' =
       IF premergeCall.record = <<>>
       THEN [premergeCall EXCEPT !.pc = "done", !.result = TRUE]
       ELSE [premergeCall EXCEPT !.pc = "review",
                                 !.lastReview = cooldownStore[premergeCall.prId].review]
  /\ UNCHANGED <<gateVars, classifyCall, loader, readinessCall, callCount,
                 href, sm, stateStore, tracker, navs, cooldownStore, bannerShows,
                 logCalls, redactCall, storageFaults, interceptors>>

\* the review record is read: the answer
ShouldShowPremergeReview ==
  /\ premergeCall.pc = "review"
  /\ premergeCall' = [premergeCall EXCEPT
       !.pc = "done",
       !.result = shouldShowPremergeNudge(premergeCall.record, premergeCall.lastReview, now)]
  /\ UNCHANGED <<gateVars, classifyCall, loader, readinessCall, callCount,
                 href, sm, stateStore, tracker, navs, cooldownStore, bannerShows,
                 logCalls, redactCall, storageFaults, interceptors>>

\* time passes to the next call
Wait ==
  /\ \E t \in CooldownTimes : t > now /\ now' = t
  /\ UNCHANGED <<policy, isActive, tokens, eventBuffer, savedState, history, hs,
                 currentModal, modal, domModals, pending, timers, userLeft,
                 classifyCall, loader, readinessCall, callCount,
                 href, sm, stateStore, tracker, navs, cooldownStore, bannerShows,
                 premergeCall, logCalls, redactCall, storageFaults, interceptors>>

InitPremerge ==
  /\ InitGate
  /\ classifyCall = IdleClassify
  /\ loader = IdleLoader
  /\ readinessCall = IdleReadiness
  /\ callCount = 0
  /\ href = ""
  /\ sm = [prId |-> None, currentState |-> <<>>, build |-> "module"]
  /\ stateStore = <<>>
  /\ tracker = <<>>
  /\ navs = <<>>
  /\ cooldownStore = [p \in PRs |-> NoCooldowns]
  /\ bannerShows = <<>>
  /\ premergeCall = IdlePremerge
  /\ logCalls = <<>>
  /\ redactCall = IdleRedact
  /\ storageFaults = {}
  /\ interceptors = <<>>

NextPremerge ==
  \/ \E p \in PRs : RecordPremergeNudgeCall(p)
  \/ \E p \in PRs : RecordReviewCall(p)
  \/ \E p \in PRs : ShouldShowPremergeCall(p)
  \/ ShouldShowPremergeRecord
  \/ ShouldShowPremergeReview
  \/ Wait

SpecPremerge == InitPremerge /\ [][NextPremerge]_vars

(***************************************************************************)
(* Logger.log on its own, for a Logger constructed with bufferSize         *)
(* LogBufferSize: the call builds the event and awaits getPolicyVersion,   *)
(* then awaits storage.get('event_buffer'), pushes, drops the oldest       *)
(* beyond the size and awaits storage.set.  Calls may overlap: nothing in  *)
(* the callers awaits one log before the next starts.                      *)
(***************************************************************************)
LogTypes == {"tab_viewed", "checkpoint_intercepted"}

\* log(eventType, payload) up to its first await; the event carries the
\* number of the call
LoggerCall(type) ==
  /\ Len(logCalls) < MaxLogs
  /\ logCalls' = Append(logCalls, [pc |-> "policy", type |-> type, buf |-> <<>>])
  /\ UNCHANGED <<gateVars, classifyCall, loader, readinessCall, callCount,
                 href, sm, stateStore, tracker, navs, cooldownStore, bannerShows,
                 premergeCall, redactCall, storageFaults, interceptors>>

LogAt(c, pc) == c \in 1..Len(logCalls) /\ logCalls[c].pc = pc

\* getPolicyVersion returned: storage is asked for event_buffer
LoggerPolicyRead(c) ==
  /\ LogAt(c, "policy")
  /\ logCalls' = [logCalls EXCEPT ![c].pc = "buffer", ![c].buf = eventBuffer]
  /\ UNCHANGED <<gateVars, classifyCall, loader, readinessCall, callCount,
                 href, sm, stateStore, tracker, navs, cooldownStore, bannerShows,
                 premergeCall, redactCall, storageFaults, interceptors>>

\* the buffer is read: push, keep the last bufferSize, write
LoggerBufferRead(c) ==
  /\ LogAt(c, "buffer")
  /\ eventBuffer' = ringCap(Append(logCalls[c].buf, [type |-> logCalls[c].type, h |-> c]),
                            LogBufferSize)
  /\ logCalls' = [logCalls EXCEPT ![c].pc = "set", ![c].buf = <<>>]
  /\ UNCHANGED <<now, policy, isActive, tokens, savedState, history, hs, currentModal,
                 modal, domModals, pending, timers, userLeft,
                 classifyCall, loader, readinessCall, callCount,
                 href, sm, stateStore, tracker, navs, cooldownStore, bannerShows,
                 premergeCall, redactCall, storageFaults, interceptors>>

\* storage.set returned: log returns the event
LoggerReturns(c) ==
  /\ LogAt(c, "set")
  /\ logCalls' = [logCalls EXCEPT ![c].pc = "done"]
  /\ UNCHANGED <<gateVars, classifyCall, loader, readinessCall, callCount,
                 href, sm, stateStore, tracker, navs, cooldownStore, bannerShows,
                 premergeCall, redactCall, storageFaults, interceptors>>

NextLogger ==
  \/ \E type \in LogTypes : LoggerCall(type)
  \/ \E c \in 1..MaxLogs : LoggerPolicyRead(c)
  \/ \E c \in 1..MaxLogs : LoggerBufferRead(c)
  \/ \E c \in 1..MaxLogs : LoggerReturns(c)

SpecLogger == Init /\ [][NextLogger]_vars

(***************************************************************************)
(* Logger.redact, called on its own.  A payload is a function from field   *)
(* names to values; a value carries its typeof, and a string is a TLA+     *)
(* string, so that length, substring and concatenation are the code's.     *)
(* Logger.log persists redact(payload) as the entry's payload.             *)
(***************************************************************************)
Builds == {"module", "bundle"}

\* logger.js: sensitiveFields; content.js: the list given to forEach
sensitiveFields(build) ==
  IF build = "module"
  THEN {"diff_text", "comment_text", "code_snippet", "patch_content", "file_content",
        "token", "password", "api_key", "secret"}
  ELSE {"diff_text", "comment_text", "code_snippet", "token", "password"}

\* what follows the first 500 characters of a long string
truncationMarker(build) == IF build = "module" THEN "... [truncated]" ELSE "..."

redact(build, payload) ==
  [k \in DOMAIN payload \ sensitiveFields(build) |->
     IF payload[k].type = "string" /\ Len(payload[k].s) > STRING_CAP
     THEN [type |-> "string",
           s |-> SubSeq(payload[k].s, 1, STRING_CAP) \o truncationMarker(build)]
     ELSE payload[k]]

Ten == "0123456789"
Fifty == Ten \o Ten \o Ten \o Ten \o Ten
FiveHundred == Fifty \o Fifty \o Fifty \o Fifty \o Fifty \o Fifty \o Fifty \o Fifty \o Fifty \o Fifty

\* the field names callers may put in a payload
PayloadFields == sensitiveFields("module") \cup {"url", "tab"}

\* a short string, one of exactly the cap, one a character longer, and a number
PayloadValues ==
  {[type |-> "string", s |-> "files"],
   [type |-> "string", s |-> FiveHundred],
   [type |-> "string", s |-> FiveHundred \o "!"],
   [type |-> "number", s |-> ""]}

Payloads ==
  UNION {[d -> PayloadValues] : d \in {e \in SUBSET PayloadFields : Cardinality(e) <= MaxFields}}

\* this.redact(payload), logger.js:36
RedactCall ==
  /\ redactCall.pc = "called"
  /\ redactCall' = [redactCall EXCEPT !.pc = "done",
                                      !.result = redact(redactCall.build, redactCall.payload)]
  /\ UNCHANGED <<gateVars, classifyCall, loader, readinessCall, callCount, href, sm,
                 stateStore, tracker, navs, cooldownStore, bannerShows, premergeCall,
                 logCalls, storageFaults, interceptors>>

InitRedact ==
  /\ InitGate
  /\ classifyCall = IdleClassify
  /\ loader = IdleLoader
  /\ readinessCall = IdleReadiness
  /\ callCount = 0
  /\ href = ""
  /\ sm = [prId |-> None, currentState |-> <<>>, build |-> "module"]
  /\ stateStore = <<>>
  /\ tracker = <<>>
  /\ navs = <<>>
  /\ cooldownStore = <<>>
  /\ bannerShows = <<>>
  /\ premergeCall = IdlePremerge
  /\ logCalls = <<>>
  /\ storageFaults = {}
  /\ interceptors = <<>>
  /\ \E build \in Builds, payload \in Payloads :
       redactCall = [pc |-> "called", build |-> build, payload |-> payload, result |-> <<>>]

NextRedact == RedactCall

SpecRedact == InitRedact /\ [][NextRedact]_vars

(***************************************************************************)
(* The gate with a failing store.  Storage.get/set await chrome.storage    *)
(* without a catch, and so do CooldownManager, Logger.log, StateManager    *)
(* .save, handleClick/handleSubmit/handleKeydown and handleCheckpoint: a   *)
(* rejected storage call rejects the handler at the await it is at.  Only  *)
(* SafeReplay.replay has try/catch/finally around createToken.             *)
(***************************************************************************)
\* the awaits of a handler that are storage calls (getPolicyVersion, awaited
\* at "logGet", catches its own failure)
AwaitsStorage == {"hasValidToken", "consumeGet", "consumeSet", "logSet", "saveState",
                  "createToken"}

rejected(h) ==
  [hs[h] EXCEPT !.pc = "done", !.tok = <<>>, !.buf = <<>>, !.snap = <<>>]

StorageFails(h) ==
  /\ h \in Handlers
  /\ hs[h].pc \in AwaitsStorage
  /\ Cardinality(storageFaults) < MaxFaults
  /\ storageFaults' = storageFaults \cup {[h |-> h, pc |-> hs[h].pc, phase |-> hs[h].phase]}
  /\ hs' = [hs EXCEPT ![h] = rejected(h)]
  /\ pending' = IF hs[h].pc = "createToken" THEN pending \ {hs[h].el} ELSE pending
  /\ UNCHANGED <<now, policy, isActive, tokens, eventBuffer, savedState, history,
                 currentModal, modal, domModals, timers, userLeft,
                 classifyCall, loader, readinessCall, callCount, href, sm, stateStore,
                 tracker, navs, cooldownStore, bannerShows, premergeCall, logCalls,
                 redactCall, interceptors>>

NextFault ==
  \/ Next
  \/ \E h \in Handlers : StorageFails(h)

\* one trigger by the user, or one navigation
InitFault ==
  /\ now = 0
  /\ policy = ShortPolicy
  /\ isActive = TRUE
  /\ tokens = [k \in ElementIds |-> <<>>]
  /\ eventBuffer = <<>>
  /\ savedState = <<>>
  /\ history = <<>>
  /\ hs = <<>>
  /\ currentModal = 0
  /\ modal = NoModal
  /\ domModals = {}
  /\ pending = {}
  /\ timers = {}
  /\ userLeft = ModalUserEvents
  /\ NoCalls

SpecFault == InitFault /\ [][NextFault]_vars

(***************************************************************************)
(* The gate under a malformed custom policy.  The bundled PolicyLoader     *)
(* takes the stored policy as it is; a kind may lack its patterns list,    *)
(* and checkpoint_matchers may lack kinds.                                 *)
(***************************************************************************)
\* checkpoint_matchers without kinds
NoKindsPolicy ==
  [ scope_selector |-> ShortPolicy.scope_selector,
    token_ttl_ms |-> ShortPolicy.token_ttl_ms,
    tier3 |-> ShortPolicy.tier3 ]

\* the i-th kind without patterns
WithoutPatterns(i) ==
  [ShortPolicy EXCEPT !.kinds[i] = [kind |-> ShortPolicy.kinds[i].kind]]

MalformedPolicies ==
  {NoKindsPolicy} \cup { WithoutPatterns(i) : i \in 1..Len(ShortPolicy.kinds) }

InitMalformed ==
  /\ now = 0
  /\ policy \in MalformedPolicies
  /\ isActive = TRUE
  /\ tokens = [k \in ElementIds |-> <<>>]
  /\ eventBuffer = <<>>
  /\ savedState = <<>>
  /\ history = <<>>
  /\ hs = <<>>
  /\ currentModal = 0
  /\ modal = NoModal
  /\ domModals = {}
  /\ pending = {}
  /\ timers = {}
  /\ userLeft = ModalUserEvents
  /\ NoCalls

SpecMalformed == InitMalformed /\ [][Next]_vars

(***************************************************************************)
(* A stored policy without a Tier-3 template for one kind: load() takes    *)
(* the custom policy as it is, and ui_templates.tier3 may lack an entry.   *)
(***************************************************************************)
WithoutTemplate(kind) ==
  [ShortPolicy EXCEPT
     !.tier3 = [k \in (DOMAIN ShortPolicy.tier3) \ {kind} |-> ShortPolicy.tier3[k]]]

InitNoTemplate ==
  /\ now = 0
  /\ policy \in {WithoutTemplate("AUTO_MERGE_ENABLE")}
  /\ isActive = TRUE
  /\ tokens = [k \in ElementIds |-> <<>>]
  /\ eventBuffer = <<>>
  /\ savedState = <<>>
  /\ history = <<>>
  /\ hs = <<>>
  /\ currentModal = 0
  /\ modal = NoModal
  /\ domModals = {}
  /\ pending = {}
  /\ timers = {}
  /\ userLeft = MaxUserEvents
  /\ NoCalls

SpecNoTemplate == InitNoTemplate /\ [][Next]_vars

(***************************************************************************)
(* Properties.                                                             *)
(***************************************************************************)
\* a user event on an in-scope control of a gated kind, arriving while the
\* interceptor is active and no surface is open, with no valid token
GatedUntokened(h) ==
  /\ hs[h].src = "user"
  /\ hs[h].gated # None
  /\ ~hs[h].arrivedOpen
  /\ ~hs[h].arrivedInactive
  /\ ~hs[h].arrivedValid

\* C1: a click, submit or Enter-keydown trigger on an in-scope control of a
\* gated kind for which no valid allow token exists never takes native
\* effect unless a confirmation flow opened for it has ended 'completed'.
C1_NoNativeEffectUnconfirmed ==
  \A h \in Handlers :
    GatedUntokened(h) /\ hs[h].native => hs[h].result = "completed"

\* C2: preventDefault and stopImmediatePropagation are called in the
\* synchronous turn of the trigger: a handler that has suspended (the event's
\* dispatch is over) does not call them afterwards.
C2_SuppressedBeforeAnyAwait ==
  [][\A h \in Handlers : hs'[h].preventCalled => hs[h].preventCalled]_vars

\* C3: every flow that ends 'completed' issues a token and re-issues the
\* original action exactly once; a flow that ends 'aborted' issues no token
\* and never re-issues the action.
C3_ExactlyOnceReplay ==
  \A h \in Handlers :
    /\ hs[h].result = "completed" /\ hs[h].pc = "done" =>
         hs[h].issued = 1 /\ hs[h].reissued = 1
    /\ hs[h].result = "aborted" => hs[h].issued = 0 /\ hs[h].reissued = 0

\* what the claim says hasValidToken returns for the record under k
ValidAsClaimed(k) ==
  /\ tokens[k] # <<>>
  /\ ~tokens[k][1].used
  /\ now - tokens[k][1].timestamp <= tokens[k][1].ttl

\* a step in which consumeToken(k) is applied to a valid token
ConsumesValid(k) ==
  /\ TokenValid(tokens[k], now)
  /\ tokens'[k] = consumed(tokens[k])

\* C4: hasValidToken returns true iff a record exists for the key, it is not
\* used and now - timestamp <= ttl; after consumeToken on a valid token
\* hasValidToken returns false; a token with TTL 5000 is valid 4999 ms after
\* its creation and invalid 5001 ms after it.
C4_TokenValidity ==
  /\ [](\A k \in TokenKeys : TokenValid(tokens[k], now) <=> ValidAsClaimed(k))
  /\ [](\A k \in TokenKeys :
          tokens[k] # <<>> /\ ~tokens[k][1].used /\ tokens[k][1].ttl = 5000 =>
            /\ Age(k) = 4999 => TokenValid(tokens[k], now)
            /\ Age(k) = 5001 => ~TokenValid(tokens[k], now))
  /\ [][\A k \in TokenKeys : ConsumesValid(k) => ~TokenValid(tokens'[k], now')]_vars

\* an unused token is read at its expiry instant, another past it, a third
\* has been consumed
C4_Witness ==
  \E k, j \in TokenKeys :
    /\ k # j
    /\ tokens[k] # <<>> /\ ~tokens[k][1].used /\ Age(k) = TOKEN_TTL_MS
    /\ TokenValid(tokens[k], now)
    /\ tokens[j] # <<>> /\ tokens[j][1].used /\ Age(j) <= TOKEN_TTL_MS
    /\ ~TokenValid(tokens[j], now)

\* the handlers hasValidToken has let pass for the element id k
passedOn(k) ==
  { h \in Handlers : hs[h].el # None /\ Key(h) = k /\ hs[h].sawValid = "valid" }

\* the flows that have issued a token for the element id k
issuedFor(k) ==
  { h \in Handlers : hs[h].el # None /\ Key(h) = k /\ hs[h].issued = 1 }

\* C5: one token admits at most one trigger: of the handlers for one
\* element id, no more are passed through than tokens were issued for it,
\* however the handlers interleave at their awaits.
C5_OneTokenOnePass ==
  \A k \in ElementIds : Cardinality(passedOn(k)) <= Cardinality(issuedFor(k))

\* the handler h ends on the pass-through path in this step
EndsPassThrough(h) ==
  hs[h].sawValid = "valid" /\ hs[h].pc # "done" /\ hs'[h].pc = "done"

\* nothing of the gate has happened for the event of handler h
Ungated(h) ==
  /\ ~hs[h].preventCalled
  /\ hs[h].shown = 0
  /\ \A i \in 1..Len(eventBuffer) : eventBuffer[i].h # h
  /\ \A i \in 1..Len(history) : history[i].h # h

\* C6: a trigger that hasValidToken lets pass has its token flagged used
\* when its handler ends, and the event is not prevented, no surface is
\* opened for it and no checkpoint is logged or recorded for it.
C6_PassThroughConsumes ==
  [][\A h \in Handlers :
       EndsPassThrough(h) =>
         /\ tokens'[Key(h)] # <<>>
         /\ tokens'[Key(h)][1].used
         /\ Ungated(h)']_vars

\* C7: every event the replay of a completed flow produces (the replayed
\* click, the submit of the form of a replayed submit-button click) is
\* recognized through the issued token and no surface is opened for it.
C7_ReplayEventsPass ==
  \A h \in Handlers :
    hs[h].flow # 0 => hs[h].sawValid # "invalid" /\ hs[h].shown = 0

\* the events that arrived while a surface was open or the interceptor was
\* stopped
arrivedBlocked(h) == hs[h].arrivedOpen \/ hs[h].arrivedInactive

\* C8: at most one confirmation surface is open at any time, and a trigger
\* that arrives while a surface is open or while the interceptor is inactive
\* is ignored: not classified, not suppressed, no token lookup, no surface.
C8_OneSurfaceTriggersIgnored ==
  /\ Cardinality(domModals) <= 1
  /\ tier3IsOpen <=> domModals # {}
  /\ \A h \in Handlers :
       arrivedBlocked(h) =>
         /\ hs[h].pc = "ignored"
         /\ hs[h].kind = None
         /\ hs[h].sawValid = None
         /\ Ungated(h)

\* a click on a gated control arrived while the surface of an earlier click
\* was open, was ignored, and that surface is still the only one
C8_Witness ==
  \E h \in Handlers :
    /\ hs[h].src = "user" /\ hs[h].gated # None
    /\ hs[h].arrivedOpen /\ hs[h].pc = "ignored"
    /\ tier3IsOpen /\ currentModal # h /\ domModals = {currentModal}

\* the user triggers accepted for classification whose flow has not yet
\* reached completed or aborted
inFlight ==
  { h \in Handlers : /\ hs[h].src = "user"
                     /\ hs[h].pc \notin {"ignored", "done"}
                     /\ hs[h].result = None }

\* C9: from the acceptance of a trigger until its flow reaches completed or
\* aborted, no new trigger starts a second concurrent classification or
\* handleCheckpoint.
C9_NoConcurrentFlow == Cardinality(inFlight) <= 1

LowerChar(c) ==
  CASE c = "M" -> "m" [] c = "E" -> "e" [] c = "R" -> "r" [] c = "G" -> "g"
    [] OTHER -> c

\* a and b are the same text up to the case of their letters
EqualIgnoringCase(a, b) ==
  Len(a) = Len(b) /\ \A i \in 1..Len(a) : LowerChar(a[i]) = LowerChar(b[i])

\* every checklist item is checked and the trimmed text is the expected one
ConditionsMet ==
  /\ modal.checked = 1..modal.nItems
  /\ EqualIgnoringCase(Trim(modal.text), Chars(modal.expected))

\* the surface resolves 'completed' in this step
Completes ==
  /\ tier3IsOpen
  /\ hs'[currentModal].result = "completed"

\* C10: the Tier-3 surface completes only when every checklist item is
\* checked and the trimmed text equals the expected text case-insensitively;
\* while a condition is unmet Proceed is disabled and neither Proceed nor
\* Enter in the text input completes the flow.
C10_CompletedOnlyWhenValid ==
  /\ [](tier3IsOpen /\ ~ConditionsMet =>
          modal.disabled /\ ~proceedClickRuns /\ ~enterCompletes)
  /\ [](tier3IsOpen /\ ConditionsMet => ~modal.disabled)
  /\ [][Completes => ConditionsMet]_vars

\* a flow has completed on a surface of three items, with a text that
\* differs from the expected one in case and surrounding blanks
C10_Witness ==
  \E h \in Handlers :
    /\ hs[h].result = "completed"
    /\ policy.tier3[hs[h].kind].checklist = 3
    /\ Chars(policy.tier3[hs[h].kind].confirmation_text) \notin Texts

\* the log call of handler h for the event type `type` is written in this step
LogWrite(h, type) ==
  /\ hs[h].pc = "logSet" /\ hs[h].phase = type
  /\ hs'[h].pc # "logSet"

\* the history holds an entry of handler h with the given result
Recorded(h, result) ==
  \E i \in 1..Len(history) :
    history[i] = [kind |-> hs[h].kind, result |-> result, h |-> h]

\* C11: Cancel, Escape and a click on the overlay close the surface with
\* outcome 'aborted'; the gate then logs checkpoint_aborted, appends an
\* 'aborted' entry to the checkpoint history and issues no token and no
\* replay.
C11_AbortPath ==
  /\ [][Abort => /\ ~tier3IsOpen' /\ domModals' = {}
                 /\ hs'[currentModal].result = "aborted"]_vars
  /\ [](\A h \in Handlers :
          hs[h].result = "aborted" =>
            /\ hs[h].phase = "checkpoint_aborted"
            /\ hs[h].pc \in {"logGet", "logSet", "saveState", "done"}
            /\ hs[h].pc \in {"saveState", "done"} => Recorded(h, "aborted")
            /\ hs[h].issued = 0 /\ hs[h].reissued = 0 /\ hs[h].tok = <<>>
            /\ \A g \in Handlers : hs[g].flow # h)
  /\ [][\A h \in Handlers :
          LogWrite(h, "checkpoint_aborted") =>
            /\ eventBuffer' # <<>>
            /\ eventBuffer'[Len(eventBuffer')] = [type |-> "checkpoint_aborted", h |-> h]]_vars

\* a flow that the user left by an abort path has run to its end
C11_Witness ==
  \E h \in Handlers :
    /\ hs[h].shown = 1 /\ hs[h].result = "aborted" /\ hs[h].pc = "done"
    /\ Recorded(h, "aborted")

\* C12: a flow whose surface was opened and is no longer open has reached a
\* terminal outcome ('completed' or 'aborted'), also when the surface was
\* closed by navigation cleanup or by a later Tier3Modal.show.
C12_ClosedSurfaceHasOutcome ==
  \A h \in Handlers :
    hs[h].shown = 1 /\ currentModal # h => hs[h].result \in {"completed", "aborted"}

\* the tier ReadinessCalculator.calculate gives the session of the page
SessionTier == calculate(readinessCall.state, readinessCall.nudge, readinessCall.at).tier

\* handler h is on its way to Tier3Modal.show
BeforeShow(h) ==
  /\ hs[h].pc \in {"logGet", "logSet"}
  /\ hs[h].phase = "checkpoint_intercepted"

Occurs(pattern, text) ==
  \E a \in 1..Len(text), b \in 1..Len(text) :
    LET part == SubSeq(text, a, b) IN
    /\ Len(part) = Len(pattern)
    /\ \A i \in 1..Len(pattern) :
         pattern[i] = "." \/ FoldChar(pattern[i]) = FoldChar(part[i])

\* the pattern can be compiled
Parseable(pattern) == \A i \in 1..Len(pattern) : pattern[i] # "("

\* the declared positions of the kinds with a pattern that matches the text
MatchingKinds(kinds, text) ==
  { i \in 1..Len(kinds) :
      \E j \in 1..Len(kinds[i].patterns) :
        /\ Parseable(Chars(kinds[i].patterns[j]))
        /\ Occurs(Chars(kinds[i].patterns[j]), Chars(text)) }

\* C14: classifyCheckpoint returns the earliest declared kind that has a
\* pattern matching the label without regard to case, and null (None) when
\* no pattern of any kind matches; a second call on the same label and
\* policy returns the same kind.
C14_FirstDeclaredKindWins ==
  /\ [](classifyCall.calls > 0 =>
          LET M == MatchingKinds(classifyCall.kinds, classifyCall.text) IN
          IF M = {} THEN classifyCall.result = None
          ELSE \E i \in M : /\ \A k \in M : i <= k
                            /\ classifyCall.result = classifyCall.kinds[i].kind)
  /\ [][classifyCall.calls > 0 /\ classifyCall'.calls > classifyCall.calls =>
          classifyCall'.result = classifyCall.result]_vars

C14_Witness ==
  /\ classifyCall.calls = 2
  /\ classifyCall.text = "ENABLE AUTO-MERGE"
  /\ classifyCall.kinds[1].patterns = <<"merge">>
  /\ classifyCall.kinds[2].patterns = <<"auto">>
  /\ classifyCall.result = classifyCall.kinds[1].kind

\* the kinds with every pattern that cannot be compiled taken out
WithoutUnparseable(kinds) ==
  [i \in 1..Len(kinds) |->
     [kinds[i] EXCEPT !.patterns = SelectSeq(@, LAMBDA q : Parseable(Chars(q)))]]

\* pattern j of kind i is valid, matches the text and comes after a pattern
\* that cannot be compiled
MatchesAfterUnparseable(kinds, text, i, j) ==
  /\ Parseable(Chars(kinds[i].patterns[j]))
  /\ Occurs(Chars(kinds[i].patterns[j]), Chars(text))
  /\ \/ \E k \in 1..(j - 1) : ~Parseable(Chars(kinds[i].patterns[k]))
     \/ \E e \in 1..(i - 1) : \E k \in 1..Len(kinds[e].patterns) :
          ~Parseable(Chars(kinds[e].patterns[k]))

\* C16: a pattern that cannot be compiled is skipped: the result is the one
\* the policy gives with that pattern removed, and a label matching a valid
\* pattern that comes after it (in the same kind or in a later kind) is
\* classified, to that pattern's kind unless an earlier kind matches.
C16_UnparseablePatternSkipped ==
  classifyCall.calls > 0 =>
    LET kinds == classifyCall.kinds
        text == classifyCall.text
    IN  /\ classifyCall.result =
             classifyCheckpoint([kinds |-> WithoutUnparseable(kinds)], text)
        /\ \A i \in 1..Len(kinds) : \A j \in 1..Len(kinds[i].patterns) :
             MatchesAfterUnparseable(kinds, text, i, j) =>
               /\ classifyCall.result # None
               /\ \/ classifyCall.result = kinds[i].kind
                  \/ \E e \in MatchingKinds(kinds, text) :
                       e < i /\ classifyCall.result = kinds[e].kind

C16_Witness ==
  /\ classifyCall.calls > 0
  /\ classifyCall.text = "Confirm merge"
  /\ classifyCall.kinds[1].patterns = <<"(merge">>
  /\ classifyCall.kinds[2].patterns = <<"(merge", "merge">>
  /\ classifyCall.result = classifyCall.kinds[2].kind

\* the candidate of the event of h: the element handleClick finds, the
\* focused element of a key press, the form of a submit
Candidate(h) ==
  IF hs[h].ev = "click" THEN findActionableElement(hs[h].target) ELSE hs[h].target

\* the elements whose label matches no pattern of any kind, per policy
Unmatched ==
  [pol \in {FallbackPolicy, ShortPolicy} |->
     { el \in Elements : MatchingKinds(pol.kinds, Dom[el].label) = {} }]

\* the candidate of h is outside the merge box, or it is a control whose
\* label matches no pattern of any kind
Unclassifiable(h) ==
  /\ Candidate(h) # None
  /\ \/ ~Dom[Candidate(h)].inScope
     \/ /\ hs[h].ev # "submit"
        /\ Candidate(h) \in Unmatched[policy]

\* what a handler leaves alone when it does not gate: the surfaces, the log,
\* the history, the tokens, the pending markers
GateState == <<tokens, eventBuffer, savedState, history, currentModal, modal,
               domModals, pending, timers>>

C17_LoadedPolicyValid ==
  loader.pc = "done" =>
    /\ validate(loader.policy)
    /\ (loader.custom # <<>> /\ ~validate(loader.custom)) \/
       (loader.custom = <<>> /\ loader.packaged # <<>> /\ ~validate(loader.packaged))
         => loader.policy = <<FallbackDoc>>

\* what calculate returns for every session state, per nudge_thresholds
Outcomes ==
  [n \in Nudges |->
     { calculate(st, n, t) : st \in SessionStates, t \in CallTimes }]

\* C18: calculate returns a score between 0 and 1 and a tier 0, 1 or 2, and
\* under the same thresholds a session with a higher score never gets a
\* higher tier: neither by the score the tier is decided from nor by the
\* rounded score that is returned.
C18_ScoreAndTierRanges ==
  readinessCall.calls > 0 =>
    LET r == readinessCall.result[1] IN
    /\ r.score >= 0 /\ r.score <= SCORE_ONE
    /\ r.tier \in {0, 1, 2}
    /\ \A o \in Outcomes[readinessCall.nudge] :
         /\ r.clamped <= o.clamped => r.tier >= o.tier
         /\ r.score < o.score => r.tier >= o.tier

C18_Witness ==
  /\ readinessCall.calls > 0
  /\ readinessCall.result[1].unclamped < 0
  /\ readinessCall.result[1].score = 0
  /\ readinessCall.result[1].tier = 2
  /\ \E o \in Outcomes[readinessCall.nudge] : o.tier = 0 /\ o.unclamped > SCORE_ONE

\* the configured threshold, or the default when none is configured
Threshold(configured, default) ==
  IF configured = <<>> THEN default ELSE configured[1]

\* the hundredth (a multiple of 10 thousandths) nearest to x, the upper one
\* when x lies halfway
NearestHundredth(x) ==
  10 * (CHOOSE m \in 0..100 : 10 * m - 5 <= x /\ x < 10 * m + 5)

\* C19: the tier is decided from the clamped score before it is rounded:
\* tier 0 from tier1_min on, tier 1 from tier2_min on, tier 2 below; a
\* score equal to tier1_min gives tier 0 and a score one unit below it
\* gives tier 1; the returned score is the clamped score rounded to two
\* decimals.
C19_TierFromUnroundedScore ==
  readinessCall.calls > 0 =>
    LET r == readinessCall.result[1]
        t1 == Threshold(readinessCall.nudge.tier1_min, DEFAULT_TIER1_MIN)
        t2 == Threshold(readinessCall.nudge.tier2_min, DEFAULT_TIER2_MIN)
        c == IF r.unclamped < 0 THEN 0
             ELSE IF r.unclamped > SCORE_ONE THEN SCORE_ONE
             ELSE r.unclamped
    IN  /\ r.clamped = c
        /\ c >= t1 => r.tier = 0
        /\ c < t1 /\ c >= t2 => r.tier = 1
        /\ c < t1 /\ c < t2 => r.tier = 2
        /\ c = t1 => r.tier = 0
        /\ c = t1 - 1 /\ c >= t2 => r.tier = 1
        /\ r.score = NearestHundredth(c)

C19_Witness ==
  /\ readinessCall.calls > 0
  /\ readinessCall.nudge = FallbackNudge
  /\ readinessCall.result[1].clamped = 696
  /\ readinessCall.result[1].score = 700
  /\ readinessCall.result[1].tier = 1
  /\ \E o \in Outcomes[FallbackNudge] : o.clamped = 700 /\ o.tier = 0

\* the sum the weights configured in nudge give the session state st at time
\* at; a weight that is not configured counts with its default
ConfiguredSum(st, nudge, at) ==
  LET g == nudge.signals
      w(configured, default, holds) ==
        IF holds THEN Threshold(configured, default) ELSE 0
      target == Threshold(g.diff_time_target_ms, DEFAULT_DIFF_TIME_TARGET_MS)
      diffMax == Threshold(g.diff_time_max, DEFAULT_DIFF_TIME_MAX)
      sinceLoad == IF st.prLoadTime = 0 THEN 0 ELSE at - st.prLoadTime
  IN  w(g.files_changed, DEFAULT_FILES_CHANGED, "files" \in st.tabsViewed)
      + w(g.checks_viewed, DEFAULT_CHECKS_VIEWED, st.checksViewed)
      + w(g.scroll_depth, DEFAULT_SCROLL_DEPTH, st.diff_scroll_max_pct >= 50)
      + w(g.conversation_viewed, DEFAULT_CONVERSATION_VIEWED,
          "conversation" \in st.tabsViewed)
      + (IF st.diff_time_ms >= target THEN diffMax
         ELSE (st.diff_time_ms * diffMax) \div target)
      - w(g.early_merge_penalty, DEFAULT_EARLY_MERGE_PENALTY,
          sinceLoad < Threshold(g.min_time_before_merge_ms,
                                DEFAULT_MIN_TIME_BEFORE_MERGE_MS))

\* C20: the score before clamping is the sum of the configured weights of
\* the signals that hold, plus the diff time share, minus the configured
\* early-merge penalty when it applies, a configured weight of 0 included;
\* with the default weights Scenario A gives score 0 and tier 2, Scenario B
\* score 1.00 and tier 0.
C20_ScoreIsConfiguredSum ==
  readinessCall.calls > 0 =>
    LET r == readinessCall.result[1] IN
    /\ r.unclamped = ConfiguredSum(readinessCall.state, readinessCall.nudge,
                                   readinessCall.at)
    /\ readinessCall.nudge = FallbackNudge /\ readinessCall.state = ScenarioA
         => r.score = 0 /\ r.tier = 2
    /\ readinessCall.nudge = FallbackNudge /\ readinessCall.state = ScenarioB
         => r.score = SCORE_ONE /\ r.tier = 0

\* C21: after any sequence of recordCheckpoint calls the history holds at
\* most 10 entries, and they are the most recent calls in call order: entry i
\* of n kept is call (calls - n + i), so the entries evicted are the oldest
C21_HistoryKeepsMostRecent ==
  /\ Len(history) = MinOf(callCount, HISTORY_MAX)
  /\ \A i \in 1..Len(history) : history[i].h = callCount - Len(history) + i

\* an 11th entry was appended and the first call is the one that went
C21_Witness ==
  /\ callCount = HISTORY_MAX + 1
  /\ Len(history) = HISTORY_MAX
  /\ history[1].h = 2
  /\ history[HISTORY_MAX].h = HISTORY_MAX + 1

TabsViewed == sm.currentState[1].tabsViewed.items

\* C22: recordTabView is idempotent: no section is twice in tabsViewed, and
\* a call for a section already recorded changes neither the state in memory
\* nor the persisted state
C22_RecordTabViewIdempotent ==
  /\ [](sm.currentState # <<>> =>
          \A i, j \in 1..Len(TabsViewed) : TabsViewed[i] = TabsViewed[j] => i = j)
  /\ [][\A tab \in {"files", "conversation"} :
          (/\ RecordTabViewCall(tab)
           /\ sm.currentState # <<>>
           /\ Includes(TabsViewed, tab))
          => UNCHANGED <<sm, stateStore>>]_vars

\* after one initialize, recordTabView was called twice and 'files' is the
\* only section: both calls named it, and the second left lastActive alone
C22_Witness ==
  /\ Len(navs) = 1
  /\ callCount = MaxCalls
  /\ sm.currentState # <<>>
  /\ sm.currentState[1].prLoadTime = 0
  /\ TabsViewed = <<"files">>
  /\ stateStore[sm.prId] = sm.currentState
  /\ now > 0
  /\ sm.currentState[1].lastActive = 0

\* the validity check as stated: truthy prId, version '1.0.0', tabsViewed an
\* array, typeof diffMetrics 'object' (which null has too)
StatedValid(state) ==
  /\ state.prId # ""
  /\ state.version = "1.0.0"
  /\ state.tabsViewed.isArray
  /\ state.diffMetrics.type \in {"object", "null"}

\* C23: initialize keeps a persisted record that passes the validity check,
\* replacing only sessionId and lastActive, creates a fresh state otherwise,
\* and has persisted the result under state:<prId> when it returns
C23_InitializeLoadsOrCreates ==
  [][\A f \in 1..MaxNavs :
       NavInitialized(f) =>
         LET existing == navs[f].existing
             result == sm'.currentState[1]
         IN  /\ IF existing # <<>> /\ StatedValid(existing[1])
                THEN result = [existing[1] EXCEPT !.sessionId = ThisSession,
                                                  !.lastActive = now]
                ELSE /\ result.tabsViewed.items = <<>>
                     /\ ~result.checksViewed
                     /\ result.diffMetrics = DiffObject(0, 0)
                     /\ result.checkpointHistory = <<>>
             /\ stateStore'[navs[f].key] = <<result>>]_vars

\* a record as createFreshState leaves it, nothing reviewed
Untouched(rec) ==
  /\ rec # <<>>
  /\ rec[1].tabsViewed.items = <<>>
  /\ ~rec[1].checksViewed
  /\ rec[1].diffMetrics = DiffObject(0, 0)
  /\ rec[1].checkpointHistory = <<>>

\* C24: on navigation to a PR without persisted state the state created and
\* persisted for it is fresh, and setting the page up (which stops the
\* previous page's MetricsTracker) writes nothing of the previous PR into it
C24_NewPRStateFresh ==
  [][\A f \in 1..MaxNavs :
       /\ (NavInitialized(f) /\ navs[f].key = "o/r/2" /\ navs[f].existing = <<>>)
            => Untouched(sm'.currentState) /\ Untouched(stateStore'["o/r/2"])
       /\ (/\ NavSetup(f) /\ sm.prId = "o/r/2" /\ Untouched(stateStore["o/r/2"])
           /\ tracker # <<>> /\ tracker[1].observedOn \subseteq {"o/r/1"})
            => Untouched(stateStore'["o/r/2"])]_vars

\* C25: the proactive banner is not shown again inside its cooldown window:
\* two shows for the same PR are more than proactive_nudge_ms apart
C25_ProactiveOncePerWindow ==
  \A i, j \in 1..Len(bannerShows) :
    (i < j /\ bannerShows[i].prId = bannerShows[j].prId)
      => bannerShows[j].at - bannerShows[i].at > PROACTIVE_NUDGE_MS

C27_CappedAppendOnly ==
  /\ [](/\ Len(eventBuffer) <= LogBufferSize
        /\ \A i, j \in 1..Len(eventBuffer) : i < j => eventBuffer[i].h < eventBuffer[j].h)
  /\ [][eventBuffer' # eventBuffer =>
          \E c \in 1..Len(logCalls) :
            eventBuffer' = ringCap(Append(eventBuffer, [type |-> logCalls[c].type, h |-> c]),
                                   LogBufferSize)]_vars

\* the fields the denylist is stated to hold
Denylisted ==
  {"diff_text", "comment_text", "code_snippet", "patch_content", "file_content",
   "token", "password", "api_key", "secret"}

\* C28: the payload a log entry is persisted with holds no denylisted field, and
\* every remaining string longer than 500 characters is stored as its first 500
\* characters followed by a truncation marker, in the module Logger and in the
\* bundled one alike; other values are stored as given.
C28_RedactedAndTruncated ==
  redactCall.pc = "done" =>
    LET p == redactCall.payload
        r == redactCall.result
    IN /\ DOMAIN r = DOMAIN p \ Denylisted
       /\ \A k \in DOMAIN r :
            IF p[k].type = "string" /\ Len(p[k].s) > 500
            THEN /\ r[k].type = "string"
                 /\ Len(r[k].s) > 500
                 /\ SubSeq(r[k].s, 1, 500) = SubSeq(p[k].s, 1, 500)
                 /\ r[k].s # p[k].s
            ELSE r[k] = p[k]

\* C29: a storage call that fails while a trigger is handled does not change the
\* gating decision.  A failed token read counts as "no token", so a gated action
\* is still suppressed; a failed log write does not end the flow before the
\* confirmation surface is shown; after a completed confirmation a failed log or
\* state write does not keep the action from being replayed; and after an abort
\* the surface is closed.
C29_StorageFailureRecovered ==
  \A f \in storageFaults :
    LET h == f.h IN
    /\ f.pc = "hasValidToken" /\ hs[h].gated # None => hs[h].preventCalled
    /\ f.pc = "logSet" /\ f.phase = "checkpoint_intercepted" =>
         hs[h].pc # "done" \/ hs[h].shown = 1
    /\ f.pc \in {"logSet", "saveState"} /\ hs[h].result = "completed" =>
         hs[h].pc # "done" \/ hs[h].issued = 1 \/ hs[h].dropped
    /\ hs[h].result = "aborted" => currentModal # h

\* a trigger on a control the built-in policy gates, whose classification ended
\* in an internal error: it threw, or the policy has no kinds
ClassifiedInError(h) ==
  LET el == TokenElement(hs[h].ev, hs[h].target) IN
  /\ hs[h].ev \in {"click", "keydown"}
  /\ hs[h].key = "Enter"
  /\ el # None
  /\ classifyAction(FallbackPolicy, el) # None
  /\ \/ hs[h].kind = Thrown
     \/ "kinds" \notin DOMAIN policy
  /\ ~hs[h].arrivedOpen
  /\ ~hs[h].arrivedInactive
  /\ hs[h].sawValid # "valid"

\* C30: an internal error raised while a trigger is classified resolves to the
\* safer outcome: when the handler of such a trigger has run, the action has
\* been suppressed (gated or blocked), not left to proceed natively.
C30_ClassificationErrorSafe ==
  \A h \in Handlers :
    ClassifiedInError(h) /\ hs[h].pc = "done" => hs[h].preventCalled

\* the events the replay of flow h issued whose handlers have not finished
replayEventsOpen(h) ==
  { f \in Handlers : /\ hs[f].src = "replay"
                     /\ hs[f].cause = h
                     /\ hs[f].pc \notin {"done", "ignored"} }

\* the replay of flow h is in flight: it waits for createToken, or an event it
\* issued is still being handled by the interceptor
replayInFlight(h) ==
  /\ hs[h].result = "completed"
  /\ hs[h].pc = "createToken" \/ replayEventsOpen(h) # {}

\* C31: the pending marker prevents re-entrant replay.  A replay of an element
\* already marked pending issues no token and does not re-issue the action; an
\* element stays marked pending while a replay of it is in flight, that is
\* until the event the replay produced has been handled; and two replays of
\* the same element are never in flight at once.
C31_PendingGuardsReplay ==
  /\ \A h \in Handlers : hs[h].dropped => hs[h].issued = 0 /\ hs[h].reissued = 0
  /\ \A h \in Handlers : replayInFlight(h) => isPending(hs[h].el)
  /\ \A h, g \in Handlers :
       replayInFlight(h) /\ replayInFlight(g) /\ hs[h].el = hs[g].el => h = g

\* x occurs in the list s
InList(x, s) == \E i \in 1..Len(s) : s[i] = x

\* the entries of `reasons` that belong to the files, checks, diff time and
\* scroll signals and to the early merge penalty
OtherReasons ==
  {"files_not_viewed", "checks_not_viewed", "insufficient_diff_time", "low_scroll_depth",
   "merge_too_fast"}

\* C32: in every result of calculate each of the five positive signals (files
\* visited, checks viewed, diff time, scroll depth, conversation visited) is
\* recorded in exactly one of the two lists: in `positive` when its condition
\* holds, in `reasons` when it does not.
C32_SignalInExactlyOneList ==
  readinessCall.result # <<>> =>
    LET st == readinessCall.state
        r == readinessCall.result[1]
        missingConversation == \E i \in 1..Len(r.reasons) : r.reasons[i] \notin OtherReasons
    IN /\ InList("files_changed", r.positive) <=> "files" \in st.tabsViewed
       /\ InList("files_not_viewed", r.reasons) <=> "files" \notin st.tabsViewed
       /\ InList("checks_viewed", r.positive) <=> st.checksViewed
       /\ InList("checks_not_viewed", r.reasons) <=> ~st.checksViewed
       /\ InList("sufficient_diff_time", r.positive) <=> ~InList("insufficient_diff_time", r.reasons)
       /\ InList("sufficient_diff_time", r.positive) <=>
            sufficientDiffTime(st, readinessCall.nudge)
       /\ InList("good_scroll_depth", r.positive) <=> st.diff_scroll_max_pct >= 50
       /\ InList("low_scroll_depth", r.reasons) <=> st.diff_scroll_max_pct < 50
       /\ InList("conversation_viewed", r.positive) <=> "conversation" \in st.tabsViewed
       /\ missingConversation <=> "conversation" \notin st.tabsViewed

\* C33: every allow token that is issued is consumed by the event of the
\* replay it was issued for: a valid, unconsumed token exists for an element
\* id only while an event of a replay of that element is still being handled,
\* so no token is left over for a later trigger by the user.
C33_NoLeftoverToken ==
  \A k \in ElementIds :
    TokenValid(tokens[k], now) =>
      \E h \in Handlers :
        /\ hs[h].el # None
        /\ Key(h) = k
        /\ hs[h].issued = 1
        /\ replayEventsOpen(h) # {}

\* C34: the deferred removal scheduled by consumeToken removes only the token
\* that was consumed: a token that has not been consumed is never deleted, in
\* particular not a new token issued for the same element id before the timer
\* fires.
C34_TimerRemovesConsumedOnly ==
  [][\A k \in ElementIds :
       tokens[k] # <<>> /\ ~tokens[k][1].used => tokens'[k] # <<>>]_vars

\* C35: in every reachable state the record persisted under state:<prId> is
\* the state of that PR: its prId field equals the prId of the key, also when
\* save() runs while initialize(url) for another PR is suspended.
C35_StoredUnderOwnKey ==
  \A k \in PRs : stateStore[k] # <<>> => stateStore[k][1].prId = k

\* no navigation is between its start and its setupForPR: the tracker belongs
\* to the state the manager holds
TrackerOfCurrentState ==
  /\ Tracking
  /\ sm.currentState # <<>>
  /\ \A f \in 1..Len(navs) : navs[f].pc \notin {"initGet", "initSaved", "logPR"}

\* C36: the accumulated diff_time_ms of a PR never exceeds the total time the
\* diff was visible: what the tracker has added to the diff time it found is at
\* most the time the diff has been in view since it started, however the
\* periodic saveMetrics, the addDiffTime at the end of visibility and stop()
\* interleave.
C36_DiffTimeCountedOnce ==
  TrackerOfCurrentState =>
    getDiffTimeAccumulated(W) <= tracker[1].base + tracker[1].visibleMs

\* the Logger.log calls that have written the buffer
LogWritten == {c \in 1..Len(logCalls) : logCalls[c].pc \in {"set", "done"}}

\* C37: no log entry is lost to interleaving: the event of every Logger.log
\* call that has written the buffer is in the persisted buffer, unless the
\* buffer is at its capacity (only then can the cap have evicted an entry),
\* also when the calls overlapped at their awaits.
C37_NoLogEntryLost ==
  \A c \in LogWritten :
    \/ \E i \in 1..Len(eventBuffer) : eventBuffer[i].h = c
    \/ Len(eventBuffer) >= LogBufferSize

\* the interceptors that are active: isActive, their capture listeners
\* registered
ActiveInterceptors == {i \in 1..Len(interceptors) : interceptors[i].isActive}

\* C38: after any sequence of navigation events, overlapping handleNavigation
\* calls included, at most one EventInterceptor is active, and on a page that
\* is not a PR none is active.
C38_OneInterceptorOnPRsOnly ==
  /\ Cardinality(ActiveInterceptors) <= 1
  /\ parsePRFromURL(href) = None => ActiveInterceptors = {}

\* the gate handled the trigger of h as a checkpoint of a kind for which the
\* policy has no Tier-3 template
WithoutTemplateFlow(h) ==
  /\ hs[h].preventCalled
  /\ hs[h].kind \notin DOMAIN policy.tier3

\* what show and handleCheckpoint do for such a trigger: no surface is opened
\* for it, no token and no replay are issued, and once the handler has ended
\* the abort is logged and an 'aborted' checkpoint is recorded
AbortedWithoutSurface(h) ==
  /\ hs[h].shown = 0 /\ h \notin domModals /\ currentModal # h
  /\ hs[h].result \in {None, "aborted"}
  /\ hs[h].issued = 0 /\ hs[h].reissued = 0 /\ hs[h].tok = <<>>
  /\ tokens[Key(h)] = <<>>
  /\ \A f \in Handlers : hs[f].src = "replay" => hs[f].cause # h
  /\ hs[h].pc = "done" =>
       /\ hs[h].result = "aborted"
       /\ hs[h].phase = "checkpoint_aborted"
       /\ \E i \in 1..Len(history) :
            history[i] = [kind |-> hs[h].kind, result |-> "aborted", h |-> h]

\* C39: fail-closed on a missing template: a trigger that classifies into a
\* kind without a Tier-3 template has been suppressed (it takes no native
\* effect), show returns 'aborted' without opening a surface, and the gate
\* logs the abort, records an 'aborted' checkpoint and issues no token and no
\* replay.
C39_FailClosedWithoutTemplate ==
  \A h \in Handlers :
    WithoutTemplateFlow(h) => ~hs[h].native /\ AbortedWithoutSurface(h)

====
